---- MODULE Spec2Model ----
(***************************************************************************)
(* Model of the scrape orchestration core of the render server: the        *)
(* circuit breaker, the rate limiter, the WebSocket session pump and the   *)
(* scrape manager.  Each component has its own next-state relation and     *)
(* specification over the shared variables; a component's specification    *)
(* leaves the other components' variables unchanged.                       *)
(***************************************************************************)
EXTENDS Integers, Sequences, FiniteSets, TLC

(***************************************************************************)
(* Bounds of the model.                                                    *)
(***************************************************************************)
\* last value of the breaker's clock
MaxCbTime == 7
\* number of CircuitBreaker.Call invocations explored
MaxCalls == 6
\* longest time fn (one scrape) may take, in breaker clock ticks
MaxFnTime == 1
\* last value of the rate limiter's clock
MaxRlTime == 7
\* number of rateLimiter.wait returns explored
MaxWaits == 3
\* number of images the job drivers send in all
MaxImages == 2
\* capacity of a job's output channel (100 in the program)
ChanCap == 1
\* number of Subscribe calls made on the scrape manager
MaxSubs == 2
\* number of images the scrapes started by the scrape manager yield in all
MaxScraped == 2
\* capacity of the channel Subscribe returns (100 in the program)
SubChanCap == 1
\* capacity of the channel Client.Scrape returns (100 in the program)
ResultCap == 1
\* largest limit of a request to the synchronous handler
MaxLimit == 2
\* number of images the scrape of one request yields at most
MaxStream == 4
\* number of gray levels a single pixel of a test image is set to
MaxLevels == 2
\* length of the longest query list given to NewQueryManager
MaxQueries == 3
\* number of GetNextQuery calls made on one QueryManager
MaxQmCalls == 4
\* the clock of the modifier-based query manager stops here
MaxMqTime == 3
\* number of GetNextQuery calls made on the modifier-based query manager
MaxMqCalls == 3
\* number of Client.Scrape calls made one after the other
MaxScrapes == 4
\* number of scrolls of one scrape
MaxScrolls == 5
\* number of response bodies the search of one query yields
MaxBodies == 3
\* number of delivery goroutines the pool-based server starts
MaxDeliveries == 2

(***************************************************************************)
(* Program constants.  Durations are counted in clock ticks: the breaker's *)
(* clock ticks every 20 s, the limiter's every 2.5 s.                      *)
(***************************************************************************)
\* reliability.NewCircuitBreaker(3, time.Minute)
MaxFailures == 3
\* time.Minute, in breaker ticks
Timeout == 3
\* newRateLimiter(time.Second*5, ...), in limiter ticks
MinDelay == 2
\* rand.Intn(1000) milliseconds: less than one limiter tick, rounded up
JitterMax == 1

\* resize.Resize(9, 8, img, resize.Lanczos3): width and height of gray
HashWidth == 9
HashHeight == 8
\* var hash uint64
Uint64Bits == 64
\* color.Gray.Y is a uint8
MaxGray == 255
\* time.Hour, in ticks of the modifier-based query manager's clock
Hour == 2
\* const maxConsecutiveTimeouts = 3
MaxConsecutiveTimeouts == 3

\* goroutines running Client.Scrape's background task on one Client
Scrapers == {1, 2}
\* goroutines calling rateLimiter.wait on one limiter
Waiters == {1, 2}

VARIABLES
  \* ---- CircuitBreaker (pkg/reliability/circuit_breaker.go)
  cbState,        \* cb.state: "closed", "open", "half-open"
  cbFailures,     \* cb.failures
  cbLastFailTime, \* cb.lastFailTime
  cbMu,           \* cb.mu: 0 when free, else the goroutine holding it
  cbPc,           \* per goroutine: "idle" or "infn" (inside fn, lock held)
  cbResult,       \* per goroutine: what its last Call returned
  cbNow,          \* the clock read by time.Now / time.Since in the breaker
  cbCalls,        \* history: number of Call invocations so far
  cbFnCount,      \* history: number of times fn was invoked
  cbRun,          \* history: failed fn invocations since the last success
  cbProbe,        \* history: the fn now running is a half-open probe
  cbLastOp,       \* history: the last Call that returned: was it a probe, its result
  \* ---- rateLimiter (pinterest client)
  rlLastRequest,  \* r.lastRequest
  rlMu,           \* r.mu: 0 when free, else the goroutine holding it
  rlPc,           \* per goroutine: position inside wait
  rlElapsed,      \* per goroutine: local elapsed
  rlWake,         \* per goroutine: time at which time.Sleep may return
  rlNow,          \* the clock read by time.Now / time.Since in the limiter
  rlReturns,      \* history: the times at which wait returned, in order
  \* ---- WebSocket server and session pump (server package)
  sockState,      \* per socket: "none", "open", "closed"
  lastFrame,      \* per socket: the last data frame written to it
  db,             \* the history store: the set of <<clientName, key>> entries
  jobOf,          \* manager registry: per client the channel of its job, or 0
  ch,             \* per pump: the buffered images of the channel it ranges over
  chClosed,       \* per pump: that channel has been closed
  sentTotal,      \* history: number of images sent by the job drivers
  pSock,          \* per pump: the socket it writes to, 0 if not started
  pPc,            \* per pump: position inside the pump goroutine
  pImg,           \* per pump: the image it is handling
  pHist,          \* history, per pump: what happened to the image it is handling
  delivered,      \* history: per client, the fingerprints of the binary frames
                  \*          written since the client's history was last cleared
  storeFailed,    \* history: some store operation returned an error
  \* ---- ScrapeManager (manager package)
  mJobs,          \* m.jobs: per query the registered job, 0 if none
  mQms,           \* m.queryManagers: per base query its QueryManager
  jobs,           \* the ScrapeJob objects allocated so far
  nJobs,          \* number of ScrapeJob objects allocated
  subMaps,        \* the Subscribers maps allocated so far: clientName -> channel
  nSubs,          \* number of Subscribe calls (maps and channels allocated)
  mChBuf,         \* per subscriber channel: its buffered images
  mChClosed,      \* per subscriber channel: it has been closed
  drvPc,          \* per job: position of its startScrapingJob goroutine
  mPanic,         \* the process has panicked
  scraped,        \* history: number of images the scrapes have yielded
  chQueries,      \* history, per channel: the query list given to Subscribe
  chStarted,      \* history, per channel: queries for which a job holding
                  \*          the channel has been started
  mLastFan,       \* history: channels the last fan-out sent to / dropped for
  \* ---- scrape pipeline of a job (scraper.Scrape, pinterest Client.Scrape)
  scCtx,          \* per job: its context: "none", "live", "cancelled"
  scMu,           \* c.circuitBreaker.mu: 0 when free, else the job whose
                  \*   scrape task holds it
  scTask,         \* per job: position of the Client.Scrape goroutine
  resultChan,     \* per job: number of results buffered in resultChan
  resultClosed,   \* per job: resultChan has been closed
  scWorker,       \* per job and worker: position of the download worker
  scrapedChan,    \* per job: number of images buffered in scrapedImageChan
  scrapedClosed,  \* per job: scrapedImageChan has been closed
  scDriver,       \* per job: position of the startScrapingJob goroutine
  \* ---- the synchronous scrape handler (server/server.go)
  svPc,           \* position inside OnMessage
  svSock,         \* the socket is open
  svLimit,        \* req.Limit
  svCount,        \* count
  svFetched,      \* number of images received from imageChan so far
  svImg,          \* img, the image being handled
  svSeen,         \* the client's bucket in the store: the keys marked seen
  svFrames,       \* history: binary frames written in answer to the request
  svSkipped,      \* history: images skipped as already seen
  \* ---- direct calls of the history store (database/db.go), on db
  stLast,         \* the last HasClientSeenImage call and what it returned
                  \*   (n alternates between 0 and 1 from call to call)
  stMarked,       \* history: the <<clientName, hash>> pairs for which
                  \*   MarkImageAsSeen has committed and that were not
                  \*   cleared since
  \* ---- imaging.DHash as a scrape worker calls it
  hPc,            \* the worker is "idle", has "decoded" an image, or has
                  \*   "hashed" it
  hImg,           \* gray: the 9x8 grayscale image, hImg[y][x]; <<>> while
                  \*   the worker has none
  hHash,          \* hash: the uint64 DHash returned, as its 64 bits; <<>>
                  \*   while the worker has none
  \* ---- query.QueryManager (query/query.go) and the goroutines calling it
  qmgr,           \* the QueryManager: queries and index
  qmMu,           \* qm.mu: 0 when free, else the goroutine holding it
  qmPc,           \* per goroutine: "idle", "locked", "read"
  qmRes,          \* per goroutine: what its GetNextQuery call computed
  qmLog,          \* history: what the calls returned, in order of return
  \* ---- scraper.QueryManager, the modifier-based one (scraper/query_manager.go)
  mqUsed,         \* qm.used: per query the time it was last emitted, -1 when
                  \*   the map has no entry
  mqMu,           \* qm.mu: 0 when free, else the goroutine holding it
  mqPc,           \* per goroutine: "idle", "lock" (in qm.mu.Lock), "draw"
  mqDepth,        \* per goroutine: how many GetNextQuery frames it has open
                  \*   below the outermost one
  mqNow,          \* the clock of this component
  mqReturns,      \* number of GetNextQuery calls that have returned
  \* ---- Downloader of the command-line client (cmd/client/main.go)
  dlPending,      \* the pins still to come on the images channel
  dlDb,           \* the keys of the database's one bucket
  dlPc,           \* per worker: "idle", "existsId", "download", "existsHash",
                  \*   "save", "addId", "addHash"
  dlImg,          \* per worker: img, the pin it is processing
  dlSaved,        \* history: the pins whose image was written to a file
  \* ---- Client.Scrape with a breaker of its own per call (unnamed/part_000)
  s0Breaker,      \* circuitBreaker, the breaker made by the running call
  s0Pc,           \* the caller is "idle", in "call" or in "infn"
  s0Log,          \* history: what each Scrape call's breaker Call returned
  \* ---- the scroll-and-harvest loop of Client.scrapeWithRetries
  slPc,           \* "scroll", "wait", "pins" (the loop over the results and
                  \*   the check after the select), "done"
  slCtx,          \* ctx of the scrape: "live" or "cancelled"
  slCount,        \* noNewResultsCount
  slSeen,         \* seenIDs
  slBody,         \* the results of the response body still to be looked at
  slSent,         \* history: the ScrapeResults sent on resultChan
  slErr,          \* what scrapeWithRetries returned, "none" while it runs
  slHist,         \* history: per scroll what the wait ended with: "timeout",
                  \*   "empty", "data", or "bad" for a body that is not JSON
  \* ---- the background task of Client.Scrape and the reader of the
  \*      channel it returns (unnamed/part_000)
  bgPc,           \* the task is in "call" (circuitBreaker.Call), at the top
                  \*   of the "loop", in the "wait" select, in the "send"
                  \*   select, or "exited"
  bgCtx,          \* ctx: "live" or "cancelled"
  bgChan,         \* number of pins buffered in resultChan
  bgCount,        \* noNewResultsCount
  bgBodies,       \* history: number of bodies received from responseChan
  bgCloses,       \* history: number of close(resultChan) executed
  bgReading,      \* the caller of Scrape still receives from the channel
  bgLate,         \* history: a pin was sent on the closed channel
  \* ---- the pool-based server: wsHandler.OnMessage with its delivery
  \*      goroutines and the ImagePool (unnamed/part_004, part_005)
  plLock,         \* c.clientLocks: per client name, its mutex is locked
  plPc,           \* per delivery goroutine: "none" (not started), "get",
                  \*   "sleep", "bin", "mark", "done"
  plReq,          \* per delivery goroutine: clientName and req.Limit
  plI,            \* per delivery goroutine: i
  plImg,          \* per delivery goroutine: img.Hash, 0 without an image
  plOpen,         \* per delivery goroutine: its socket is still connected
  plPool,         \* ip.images: the fingerprints of the images in the pool
  plSeen,         \* per client name: the fingerprints marked seen in the store
  plLast          \* history: how the last request message ended: "none",
                  \*   "started" or "rejected"

cbVars == <<cbState, cbFailures, cbLastFailTime, cbMu, cbPc, cbResult, cbNow,
            cbCalls, cbFnCount, cbRun, cbProbe, cbLastOp>>
rlVars == <<rlLastRequest, rlMu, rlPc, rlElapsed, rlWake, rlNow, rlReturns>>
pumpVars == <<sockState, lastFrame, db, jobOf, ch, chClosed, sentTotal,
              pSock, pPc, pImg, pHist, delivered, storeFailed>>
mgrVars == <<mJobs, mQms, jobs, nJobs, subMaps, nSubs, mChBuf, mChClosed,
             drvPc, mPanic, scraped, chQueries, chStarted, mLastFan>>
pipeVars == <<scCtx, scMu, scTask, resultChan, resultClosed, scWorker,
              scrapedChan, scrapedClosed, scDriver>>
svVars == <<svPc, svSock, svLimit, svCount, svFetched, svImg, svSeen,
            svFrames, svSkipped>>
stVars == <<stLast, stMarked>>
hashVars == <<hPc, hImg, hHash>>
qmVars == <<qmgr, qmMu, qmPc, qmRes, qmLog>>
mqVars == <<mqUsed, mqMu, mqPc, mqDepth, mqNow, mqReturns>>
dlVars == <<dlPending, dlDb, dlPc, dlImg, dlSaved>>
s0Vars == <<s0Breaker, s0Pc, s0Log>>
slVars == <<slPc, slCtx, slCount, slSeen, slBody, slSent, slErr, slHist>>
bgVars == <<bgPc, bgCtx, bgChan, bgCount, bgBodies, bgCloses, bgReading, bgLate>>
plVars == <<plLock, plPc, plReq, plI, plImg, plOpen, plPool, plSeen, plLast>>
vars == <<cbVars, rlVars, pumpVars, mgrVars, pipeVars, svVars, stVars,
          hashVars, qmVars,
          mqVars,
          dlVars,
          s0Vars,
          slVars,
          bgVars,
          plVars>>

(***************************************************************************)
(* time.Time{}: the zero time lies further back than any duration of the   *)
(* model, so time.Since(zero) exceeds every delay.                         *)
(***************************************************************************)
ZeroTime == 0 - (MinDelay + JitterMax + Timeout + 1)

(***************************************************************************)
(* CircuitBreaker                                                          *)
(***************************************************************************)
\* what fn (Client.scrapeWithRetries) returns: nil when the context was
\* cancelled, ErrQueryExhausted, or the driver's error
ErrQueryExhausted == "query exhausted"
ErrDriver == "driver error"
ErrBreakerOpen == "circuit breaker is open"
FnOutcomes == {"nil", ErrQueryExhausted, ErrDriver}

InitBreaker ==
  /\ cbState = "closed"
  /\ cbFailures = 0
  /\ cbLastFailTime = ZeroTime
  /\ cbMu = 0
  /\ cbPc = [g \in Scrapers |-> "idle"]
  /\ cbResult = [g \in Scrapers |-> "none"]
  /\ cbNow = 0
  /\ cbCalls = 0
  /\ cbFnCount = 0
  /\ cbRun = 0
  /\ cbProbe = FALSE
  /\ cbLastOp = [probe |-> FALSE, err |-> "none"]

\* time.Since(cb.lastFailTime) > cb.timeout
TimeoutElapsed_Inclusive == cbNow - cbLastFailTime >= Timeout
TimeoutElapsed == cbNow - cbLastFailTime > Timeout

\* cb.failures >= cb.maxFailures
Tripped_Late(f) == f > MaxFailures
Tripped(f) == f >= MaxFailures

\* a failure that opens the breaker whatever the count
OnFailure_TripAtOnce ==
  /\ cbFailures' = cbFailures + 1
  /\ cbLastFailTime' = cbNow'
  /\ cbState' = "open"

\* if err != nil { cb.failures++; cb.lastFailTime = time.Now(); if ... "open" }
OnFailure ==
  /\ cbFailures' = cbFailures + 1
  /\ cbLastFailTime' = cbNow'
  /\ cbState' = IF Tripped(cbFailures + 1) THEN "open" ELSE cbState

\* cb.failures = 0; cb.state = "closed"
OnSuccess ==
  /\ cbFailures' = 0
  /\ cbState' = "closed"
  /\ UNCHANGED cbLastFailTime

\* Call, from the lock to the invocation of fn: an open breaker either
\* rejects the call or becomes half-open and lets it through.
CallEnter(g) ==
  /\ cbPc[g] = "idle"
  /\ cbMu = 0
  /\ cbCalls < MaxCalls
  /\ cbCalls' = cbCalls + 1
  /\ IF cbState = "open" /\ ~TimeoutElapsed
     THEN /\ cbResult' = [cbResult EXCEPT ![g] = ErrBreakerOpen]
          /\ cbLastOp' = [probe |-> FALSE, err |-> ErrBreakerOpen]
          /\ UNCHANGED <<cbState, cbFailures, cbLastFailTime, cbMu, cbPc,
                         cbNow, cbFnCount, cbRun, cbProbe>>
     ELSE /\ cbMu' = g
          /\ cbPc' = [cbPc EXCEPT ![g] = "infn"]
          /\ cbFnCount' = cbFnCount + 1
          /\ cbProbe' = (cbState = "open")
          /\ IF cbState = "open"
             THEN cbState' = "half-open" /\ cbFailures' = 0
             ELSE UNCHANGED <<cbState, cbFailures>>
          /\ UNCHANGED <<cbLastFailTime, cbResult, cbNow, cbRun, cbLastOp>>
  /\ UNCHANGED <<rlVars, pumpVars, mgrVars, pipeVars, svVars, stVars,
               hashVars, qmVars, mqVars, dlVars, s0Vars, slVars, bgVars, plVars>>

\* Call, from the return of fn to the unlock.  fn took d ticks.
CallReturn(g) ==
  /\ cbPc[g] = "infn"
  /\ cbMu = g
  /\ \E err \in FnOutcomes, d \in 0..MaxFnTime :
       /\ cbNow + d <= MaxCbTime
       /\ cbNow' = cbNow + d
       /\ IF err # "nil"
          THEN OnFailure /\ cbRun' = cbRun + 1
          ELSE OnSuccess /\ cbRun' = 0
       /\ cbResult' = [cbResult EXCEPT ![g] = err]
       /\ cbLastOp' = [probe |-> cbProbe, err |-> err]
  /\ cbMu' = 0
  /\ cbPc' = [cbPc EXCEPT ![g] = "idle"]
  /\ cbProbe' = FALSE
  /\ UNCHANGED <<cbCalls, cbFnCount>>
  /\ UNCHANGED <<rlVars, pumpVars, mgrVars, pipeVars, svVars, stVars,
               hashVars, qmVars, mqVars, dlVars, s0Vars, slVars, bgVars, plVars>>

CbTick ==
  /\ cbNow < MaxCbTime
  /\ cbNow' = cbNow + 1
  /\ UNCHANGED <<cbState, cbFailures, cbLastFailTime, cbMu, cbPc, cbResult,
                 cbCalls, cbFnCount, cbRun, cbProbe, cbLastOp>>
  /\ UNCHANGED <<rlVars, pumpVars, mgrVars, pipeVars, svVars, stVars,
               hashVars, qmVars, mqVars, dlVars, s0Vars, slVars, bgVars, plVars>>

(***************************************************************************)
(* rateLimiter                                                             *)
(***************************************************************************)
InitLimiter ==
  /\ rlLastRequest = ZeroTime
  /\ rlMu = 0
  /\ rlPc = [g \in Waiters |-> "idle"]
  /\ rlElapsed = [g \in Waiters |-> 0]
  /\ rlWake = [g \in Waiters |-> 0]
  /\ rlNow = 0
  /\ rlReturns = <<>>

\* r.mu.Lock()
WaitLock_NoMutex(g) ==
  /\ rlPc[g] = "idle"
  /\ Len(rlReturns) < MaxWaits
  /\ rlPc' = [rlPc EXCEPT ![g] = "locked"]
  /\ UNCHANGED <<rlLastRequest, rlMu, rlElapsed, rlWake, rlNow, rlReturns>>
  /\ UNCHANGED <<cbVars, pumpVars, mgrVars, pipeVars, svVars, stVars,
               hashVars, qmVars, mqVars, dlVars, s0Vars, slVars, bgVars, plVars>>
WaitLock(g) ==
  /\ rlPc[g] = "idle"
  /\ rlMu = 0
  /\ Len(rlReturns) < MaxWaits
  /\ rlMu' = g
  /\ rlPc' = [rlPc EXCEPT ![g] = "locked"]
  /\ UNCHANGED <<rlLastRequest, rlElapsed, rlWake, rlNow, rlReturns>>
  /\ UNCHANGED <<cbVars, pumpVars, mgrVars, pipeVars, svVars, stVars,
               hashVars, qmVars, mqVars, dlVars, s0Vars, slVars, bgVars, plVars>>

\* elapsed := time.Since(r.lastRequest); if elapsed < r.minDelay
WaitMeasure(g) ==
  /\ rlPc[g] = "locked"
  /\ rlElapsed' = [rlElapsed EXCEPT ![g] = rlNow - rlLastRequest]
  /\ rlPc' = [rlPc EXCEPT ![g] =
                IF rlNow - rlLastRequest < MinDelay THEN "tosleep" ELSE "stamp"]
  /\ UNCHANGED <<rlLastRequest, rlMu, rlWake, rlNow, rlReturns>>
  /\ UNCHANGED <<cbVars, pumpVars, mgrVars, pipeVars, svVars, stVars,
               hashVars, qmVars, mqVars, dlVars, s0Vars, slVars, bgVars, plVars>>

\* the argument of time.Sleep: r.minDelay - elapsed + jitter
SleepFor(elapsed, jitter) == MinDelay - elapsed + jitter

\* time.Sleep(...) is entered: it returns no earlier than rlWake
WaitSleep(g) ==
  /\ rlPc[g] = "tosleep"
  /\ \E jitter \in 0..JitterMax :
       rlWake' = [rlWake EXCEPT ![g] = rlNow + SleepFor(rlElapsed[g], jitter)]
  /\ rlPc' = [rlPc EXCEPT ![g] = "sleeping"]
  /\ UNCHANGED <<rlLastRequest, rlMu, rlElapsed, rlNow, rlReturns>>
  /\ UNCHANGED <<cbVars, pumpVars, mgrVars, pipeVars, svVars, stVars,
               hashVars, qmVars, mqVars, dlVars, s0Vars, slVars, bgVars, plVars>>

\* time.Sleep returns
WaitWake(g) ==
  /\ rlPc[g] = "sleeping"
  /\ rlNow >= rlWake[g]
  /\ rlPc' = [rlPc EXCEPT ![g] = "stamp"]
  /\ UNCHANGED <<rlLastRequest, rlMu, rlElapsed, rlWake, rlNow, rlReturns>>
  /\ UNCHANGED <<cbVars, pumpVars, mgrVars, pipeVars, svVars, stVars,
               hashVars, qmVars, mqVars, dlVars, s0Vars, slVars, bgVars, plVars>>

\* r.lastRequest = time.Now(); the deferred Unlock; wait returns
WaitReturn(g) ==
  /\ rlPc[g] = "stamp"
  /\ rlLastRequest' = rlNow
  /\ rlMu' = IF rlMu = g THEN 0 ELSE rlMu
  /\ rlPc' = [rlPc EXCEPT ![g] = "idle"]
  /\ rlReturns' = Append(rlReturns, rlNow)
  /\ UNCHANGED <<rlElapsed, rlWake, rlNow>>
  /\ UNCHANGED <<cbVars, pumpVars, mgrVars, pipeVars, svVars, stVars,
               hashVars, qmVars, mqVars, dlVars, s0Vars, slVars, bgVars, plVars>>

RlTick ==
  /\ rlNow < MaxRlTime
  /\ rlNow' = rlNow + 1
  /\ UNCHANGED <<rlLastRequest, rlMu, rlPc, rlElapsed, rlWake, rlReturns>>
  /\ UNCHANGED <<cbVars, pumpVars, mgrVars, pipeVars, svVars, stVars,
               hashVars, qmVars, mqVars, dlVars, s0Vars, slVars, bgVars, plVars>>

(***************************************************************************)
(* WebSocket server and session pump                                       *)
(***************************************************************************)
Sockets == {1, 2}
Clients == {"bot", "other"}
\* the pump goroutines, one per start request
Pumps == {1, 2}
\* scraped images: pins 1 and 2 carry the same picture, so the same hash
Images == {[id |-> 1, hash |-> 1], [id |-> 2, hash |-> 1], [id |-> 3, hash |-> 2]}
Hashes == {i.hash : i \in Images}
NoImage == [id |-> 0, hash |-> 0]
NoFrame == [type |-> "none", img |-> NoImage]
FreshHist == [bin |-> FALSE, text |-> FALSE, mark |-> FALSE]

\* the X-Server-Name header a socket was opened with
ServerName(s) == IF s = 1 THEN "bot" ELSE "other"

InitPump ==
  /\ sockState = [s \in Sockets |-> "none"]
  /\ lastFrame = [s \in Sockets |-> NoFrame]
  /\ db = {}
  /\ jobOf = [c \in Clients |-> 0]
  /\ ch = [p \in Pumps |-> <<>>]
  /\ chClosed = [p \in Pumps |-> FALSE]
  /\ sentTotal = 0
  /\ pSock = [p \in Pumps |-> 0]
  /\ pPc = [p \in Pumps |-> "unused"]
  /\ pImg = [p \in Pumps |-> NoImage]
  /\ pHist = [p \in Pumps |-> FreshHist]
  /\ delivered = [c \in Clients |-> {}]
  /\ storeFailed = FALSE

\* hashStr := fmt.Sprintf("%d", hash)
HashKey_OneKey(hash) == "1"
HashKey(hash) == ToString(hash)

\* DB.HasClientSeenImage: a missing bucket holds no key
HasClientSeenImage(c, hash) == <<c, HashKey(hash)>> \in db

\* DB.MarkImageAsSeen: CreateBucketIfNotExists, then Put
MarkImageAsSeen(c, hash) == db \cup {<<c, HashKey(hash)>>}

\* DB.ClearClientHistory: drops the client's bucket
ClearClientHistory(c) == {e \in db : e[1] # c}

\* socket.WriteMessage succeeds while the connection is open
CanWrite(s) == sockState[s] = "open"

\* the data frame WriteMessage puts on the wire
Written(type, img) == [type |-> type, img |-> img]

PumpClient(p) == ServerName(pSock[p])

\* handleScrape: the request is upgraded and the serverName stored
Connect(s) ==
  /\ sockState[s] = "none"
  /\ sockState' = [sockState EXCEPT ![s] = "open"]
  /\ UNCHANGED <<lastFrame, db, jobOf, ch, chClosed, sentTotal, pSock,
                 pPc, pImg, pHist, delivered, storeFailed>>
  /\ UNCHANGED <<cbVars, rlVars, mgrVars, pipeVars, svVars, stVars,
               hashVars, qmVars, mqVars, dlVars, s0Vars, slVars, bgVars, plVars>>

\* ScrapeManager.Stop(clientName): the job is cancelled, its driver closes
\* the output channel, the job leaves the registry
StopClosed(c) == [p \in Pumps |-> chClosed[p] \/ p = jobOf[c]]

\* OnClose: c.scrapeManager.Stop(clientName)
OnClose(s) ==
  /\ sockState[s] = "open"
  /\ sockState' = [sockState EXCEPT ![s] = "closed"]
  /\ chClosed' = StopClosed(ServerName(s))
  /\ jobOf' = [jobOf EXCEPT ![ServerName(s)] = 0]
  /\ UNCHANGED <<lastFrame, db, ch, sentTotal, pSock, pPc, pImg, pHist,
                 delivered, storeFailed>>
  /\ UNCHANGED <<cbVars, rlVars, mgrVars, pipeVars, svVars, stVars,
               hashVars, qmVars, mqVars, dlVars, s0Vars, slVars, bgVars, plVars>>

\* OnMessage, a frame that is not valid JSON or carries neither a command
\* nor queries: logged and dropped
OnMessageDropped(s) ==
  /\ sockState[s] = "open"
  /\ UNCHANGED pumpVars
  /\ UNCHANGED <<cbVars, rlVars, mgrVars, pipeVars, svVars, stVars,
               hashVars, qmVars, mqVars, dlVars, s0Vars, slVars, bgVars, plVars>>

\* OnMessage, {"command": "clear"}
OnMessageClear(s) ==
  /\ sockState[s] = "open"
  /\ \E err \in BOOLEAN :
       /\ storeFailed' = (storeFailed \/ err)
       /\ db' = IF err THEN db ELSE ClearClientHistory(ServerName(s))
       /\ delivered' = IF err THEN delivered
                       ELSE [delivered EXCEPT ![ServerName(s)] = {}]
  /\ UNCHANGED <<sockState, lastFrame, jobOf, ch, chClosed, sentTotal,
                 pSock, pPc, pImg, pHist>>
  /\ UNCHANGED <<cbVars, rlVars, mgrVars, pipeVars, svVars, stVars,
               hashVars, qmVars, mqVars, dlVars, s0Vars, slVars, bgVars, plVars>>

\* OnMessage, {"queries": [...], "limit": n}: ScrapeManager.Start stops the
\* client's earlier job and starts a new one, and the pump goroutine that
\* ranges over the new job's channel is started
OnMessageStart(s) ==
  /\ sockState[s] = "open"
  /\ \E p \in Pumps :
       /\ pPc[p] = "unused"
       /\ \A q \in Pumps : q < p => pPc[q] # "unused"
       /\ chClosed' = StopClosed(ServerName(s))
       /\ jobOf' = [jobOf EXCEPT ![ServerName(s)] = p]
       /\ pSock' = [pSock EXCEPT ![p] = s]
       /\ pPc' = [pPc EXCEPT ![p] = "recv"]
  /\ UNCHANGED <<sockState, lastFrame, db, ch, sentTotal, pImg, pHist,
                 delivered, storeFailed>>
  /\ UNCHANGED <<cbVars, rlVars, mgrVars, pipeVars, svVars, stVars,
               hashVars, qmVars, mqVars, dlVars, s0Vars, slVars, bgVars, plVars>>

\* the text frames a client can send: malformed JSON, or a ScrapeRequest
\* with its command and with or without queries
Frames ==
  {[valid |-> FALSE, command |-> "", queries |-> FALSE]} \cup
  [valid : {TRUE}, command : {"", "clear"}, queries : BOOLEAN]

\* what OnMessage does with a frame: the JSON check, then the command,
\* then the queries
FrameKind_QueriesFirst(frame) ==
  IF ~frame.valid THEN "dropped"
  ELSE IF frame.queries THEN "start"
  ELSE IF frame.command = "clear" THEN "clear"
  ELSE "dropped"
FrameKind(frame) ==
  IF ~frame.valid THEN "dropped"
  ELSE IF frame.command = "clear" THEN "clear"
  ELSE IF ~frame.queries THEN "dropped"
  ELSE "start"

\* OnMessage(socket, message)
OnMessage(s, frame) ==
  CASE FrameKind(frame) = "clear" -> OnMessageClear(s)
    [] FrameKind(frame) = "start" -> OnMessageStart(s)
    [] OTHER -> OnMessageDropped(s)

\* job driver: send img to the job's channel (it blocks while the buffer
\* is full)
JobSend(c, img) ==
  /\ jobOf[c] # 0
  /\ ~chClosed[jobOf[c]]
  /\ sentTotal < MaxImages
  /\ Len(ch[jobOf[c]]) < ChanCap
  /\ ch' = [ch EXCEPT ![jobOf[c]] = Append(@, img)]
  /\ sentTotal' = sentTotal + 1
  /\ UNCHANGED <<sockState, lastFrame, db, jobOf, chClosed, pSock,
                 pPc, pImg, pHist, delivered, storeFailed>>
  /\ UNCHANGED <<cbVars, rlVars, mgrVars, pipeVars, svVars, stVars,
               hashVars, qmVars, mqVars, dlVars, s0Vars, slVars, bgVars, plVars>>

\* job driver: the limit is reached or the queries are exhausted; the
\* driver closes the channel
JobFinish(c) ==
  /\ jobOf[c] # 0
  /\ ~chClosed[jobOf[c]]
  /\ chClosed' = [chClosed EXCEPT ![jobOf[c]] = TRUE]
  /\ UNCHANGED <<sockState, lastFrame, db, jobOf, ch, sentTotal, pSock,
                 pPc, pImg, pHist, delivered, storeFailed>>
  /\ UNCHANGED <<cbVars, rlVars, mgrVars, pipeVars, svVars, stVars,
               hashVars, qmVars, mqVars, dlVars, s0Vars, slVars, bgVars, plVars>>

\* for img := range imageChan: the next buffered image
PumpReceive(p) ==
  /\ pPc[p] = "recv"
  /\ ch[p] # <<>>
  /\ pImg' = [pImg EXCEPT ![p] = Head(ch[p])]
  /\ ch' = [ch EXCEPT ![p] = Tail(@)]
  /\ pHist' = [pHist EXCEPT ![p] = FreshHist]
  /\ pPc' = [pPc EXCEPT ![p] = "hasseen"]
  /\ UNCHANGED <<sockState, lastFrame, db, jobOf, chClosed, sentTotal,
                 pSock, delivered, storeFailed>>
  /\ UNCHANGED <<cbVars, rlVars, mgrVars, pipeVars, svVars, stVars,
               hashVars, qmVars, mqVars, dlVars, s0Vars, slVars, bgVars, plVars>>

\* for img := range imageChan: the channel is closed and drained
PumpExit(p) ==
  /\ pPc[p] = "recv"
  /\ ch[p] = <<>>
  /\ chClosed[p]
  /\ pPc' = [pPc EXCEPT ![p] = "done"]
  /\ UNCHANGED <<sockState, lastFrame, db, jobOf, ch, chClosed, sentTotal, pSock, pImg, pHist, delivered, storeFailed>>
  /\ UNCHANGED <<cbVars, rlVars, mgrVars, pipeVars, svVars, stVars,
               hashVars, qmVars, mqVars, dlVars, s0Vars, slVars, bgVars, plVars>>

\* seen, err := c.db.HasClientSeenImage(clientName, img.Hash);
\* an error or a seen image continues with the next image
PumpHasSeen(p) ==
  /\ pPc[p] = "hasseen"
  /\ \E err \in BOOLEAN :
       /\ storeFailed' = (storeFailed \/ err)
       /\ IF err \/ HasClientSeenImage(PumpClient(p), pImg[p].hash)
          THEN /\ pPc' = [pPc EXCEPT ![p] = "recv"]
               /\ pImg' = [pImg EXCEPT ![p] = NoImage]
          ELSE /\ pPc' = [pPc EXCEPT ![p] = "bin"]
               /\ UNCHANGED pImg
  /\ UNCHANGED <<sockState, lastFrame, db, jobOf, ch, chClosed, sentTotal, pSock, pHist, delivered>>
  /\ UNCHANGED <<cbVars, rlVars, mgrVars, pipeVars, svVars, stVars,
               hashVars, qmVars, mqVars, dlVars, s0Vars, slVars, bgVars, plVars>>

\* a binary write whose error is logged and not acted on
PumpWriteBinary_IgnoreError(p) ==
  /\ pPc[p] = "bin"
  /\ IF CanWrite(pSock[p])
     THEN /\ lastFrame' = [lastFrame EXCEPT ![pSock[p]] =
                             Written("binary", pImg[p])]
          /\ delivered' = [delivered EXCEPT ![PumpClient(p)] = @ \cup {pImg[p].hash}]
          /\ pHist' = [pHist EXCEPT ![p].bin = TRUE]
     ELSE UNCHANGED <<lastFrame, delivered, pHist>>
  /\ pPc' = [pPc EXCEPT ![p] = "text"]
  /\ UNCHANGED <<sockState, db, jobOf, ch, chClosed, sentTotal, pSock, pImg,
                 storeFailed>>
  /\ UNCHANGED <<cbVars, rlVars, mgrVars, pipeVars, svVars, stVars,
               hashVars, qmVars, mqVars, dlVars, s0Vars, slVars, bgVars, plVars>>

\* socket.WriteMessage(gws.OpcodeBinary, img.Data); an error ends the pump
PumpWriteBinary(p) ==
  /\ pPc[p] = "bin"
  /\ IF CanWrite(pSock[p])
     THEN /\ lastFrame' = [lastFrame EXCEPT ![pSock[p]] =
                             Written("binary", pImg[p])]
          /\ delivered' = [delivered EXCEPT ![PumpClient(p)] = @ \cup {pImg[p].hash}]
          /\ pHist' = [pHist EXCEPT ![p].bin = TRUE]
          /\ pPc' = [pPc EXCEPT ![p] = "text"]
          /\ UNCHANGED pImg
     ELSE /\ pPc' = [pPc EXCEPT ![p] = "done"]
          /\ pImg' = [pImg EXCEPT ![p] = NoImage]
          /\ UNCHANGED <<lastFrame, delivered, pHist>>
  /\ UNCHANGED <<sockState, db, jobOf, ch, chClosed, sentTotal, pSock,
                 storeFailed>>
  /\ UNCHANGED <<cbVars, rlVars, mgrVars, pipeVars, svVars, stVars,
               hashVars, qmVars, mqVars, dlVars, s0Vars, slVars, bgVars, plVars>>

\* socket.WriteMessage(gws.OpcodeText, "pin:" + img.ID); the result is not
\* looked at
PumpWriteText(p) ==
  /\ pPc[p] = "text"
  /\ IF CanWrite(pSock[p])
     THEN /\ lastFrame' = [lastFrame EXCEPT ![pSock[p]] =
                             Written("text", pImg[p])]
          /\ pHist' = [pHist EXCEPT ![p].text = TRUE]
     ELSE UNCHANGED <<lastFrame, pHist>>
  /\ pPc' = [pPc EXCEPT ![p] = "mark"]
  /\ UNCHANGED <<sockState, db, jobOf, ch, chClosed, sentTotal, pSock,
                 pImg, delivered, storeFailed>>
  /\ UNCHANGED <<cbVars, rlVars, mgrVars, pipeVars, svVars, stVars,
               hashVars, qmVars, mqVars, dlVars, s0Vars, slVars, bgVars, plVars>>

\* c.db.MarkImageAsSeen(clientName, img.Hash); an error is logged
PumpMarkSeen(p) ==
  /\ pPc[p] = "mark"
  /\ \E err \in BOOLEAN :
       /\ storeFailed' = (storeFailed \/ err)
       /\ db' = IF err THEN db ELSE MarkImageAsSeen(PumpClient(p), pImg[p].hash)
       /\ pHist' = [pHist EXCEPT ![p].mark = ~err]
  /\ pPc' = [pPc EXCEPT ![p] = "recv"]
  /\ pImg' = [pImg EXCEPT ![p] = NoImage]
  /\ UNCHANGED <<sockState, lastFrame, jobOf, ch, chClosed, sentTotal,
                 pSock, delivered>>
  /\ UNCHANGED <<cbVars, rlVars, mgrVars, pipeVars, svVars, stVars,
               hashVars, qmVars, mqVars, dlVars, s0Vars, slVars, bgVars, plVars>>

(***************************************************************************)
(* ScrapeManager and QueryManager                                          *)
(***************************************************************************)
MClients == {"a", "b"}
Queries == {"q1", "q2"}
\* the query lists given to Subscribe
QueryLists == {<<>>, <<"q1">>, <<"q1", "q2">>}
\* Subscribe makes one channel and one Subscribers map per call; a list has
\* at most two queries, so at most two jobs are made per call
ChanIds == 1..MaxSubs
JobIds == 1..(MaxSubs + MaxSubs)

NoJob == [query |-> "", base |-> "", subs |-> 0, cancelled |-> FALSE]
NoQm == [present |-> FALSE, queries |-> <<>>, index |-> 0]

InitManager ==
  /\ mJobs = [q \in Queries |-> 0]
  /\ mQms = [q \in Queries |-> NoQm]
  /\ jobs = [j \in JobIds |-> NoJob]
  /\ nJobs = 0
  /\ subMaps = [k \in ChanIds |-> [c \in MClients |-> 0]]
  /\ nSubs = 0
  /\ mChBuf = [k \in ChanIds |-> <<>>]
  /\ mChClosed = [k \in ChanIds |-> FALSE]
  /\ drvPc = [j \in JobIds |-> "none"]
  /\ mPanic = FALSE
  /\ scraped = 0
  /\ chQueries = [k \in ChanIds |-> <<>>]
  /\ chStarted = [k \in ChanIds |-> {}]
  /\ mLastFan = [sent |-> {}, dropped |-> {}]

NewQueryManager(queries) == [present |-> TRUE, queries |-> queries, index |-> 0]

\* qm.GetNextQuery(): the query at qm.index (counted from 0) and the
\* manager with its index advanced, or ok = FALSE when the list is used up
GetNextQuery(qm) ==
  IF qm.index >= Len(qm.queries)
    THEN [query |-> "", ok |-> FALSE, qm |-> qm]
    ELSE [query |-> qm.queries[qm.index + 1], ok |-> TRUE,
          qm |-> [qm EXCEPT !.index = qm.index + 1]]

\* the channels held by Subscribers map m
SubChans(m) == {subMaps[m][c] : c \in MClients} \ {0}

\* the image a scrape of job j yields (tagged with the job's query)
ScrapedImage(j) == jobs[j].query

\* Subscribe(clientName, queries), all under m.mu
Subscribe(clientName, queries) ==
  /\ ~mPanic
  /\ nSubs < MaxSubs
  /\ IF Len(queries) = 0
       THEN \* queries[0] on an empty slice: index out of range
            /\ mPanic' = TRUE
            /\ UNCHANGED <<mJobs, mQms, jobs, nJobs, subMaps, nSubs, mChBuf,
                           mChClosed, drvPc, chQueries, chStarted>>
       ELSE LET baseQuery == queries[1]
                r == GetNextQuery(NewQueryManager(queries))
                j == nJobs + 1
                k == nSubs + 1
            IN /\ mQms' = [mQms EXCEPT ![baseQuery] = r.qm]
               /\ IF ~r.ok
                    THEN UNCHANGED <<mJobs, jobs, nJobs, subMaps, nSubs,
                                     drvPc, chQueries, chStarted>>
                    ELSE /\ jobs' = [jobs EXCEPT ![j] =
                                       [query |-> r.query, base |-> baseQuery,
                                        subs |-> k, cancelled |-> FALSE]]
                         /\ nJobs' = j
                         /\ mJobs' = [mJobs EXCEPT ![r.query] = j]
                         /\ drvPc' = [drvPc EXCEPT ![j] = "loop"]
                         /\ subMaps' = [subMaps EXCEPT ![k][clientName] = k]
                         /\ nSubs' = k
                         /\ chQueries' = [chQueries EXCEPT ![k] = queries]
                         /\ chStarted' = [chStarted EXCEPT ![k] = {r.query}]
               /\ UNCHANGED <<mChBuf, mChClosed, mPanic>>
  /\ UNCHANGED <<scraped, mLastFan>>
  /\ UNCHANGED <<cbVars, rlVars, pumpVars, pipeVars, svVars, stVars,
               hashVars, qmVars, mqVars, dlVars, s0Vars, slVars, bgVars, plVars>>

\* an Unsubscribe that leaves a job without subscribers in m.jobs
Unsubscribe_KeepJob(clientName, baseQuery) ==
  /\ ~mPanic
  /\ LET found == {q \in Queries : mJobs[q] # 0 /\ jobs[mJobs[q]].base = baseQuery}
     IN IF found = {}
          THEN UNCHANGED <<mJobs, mQms, jobs, subMaps, mChClosed, mPanic>>
          ELSE \E currentQuery \in found :
                 LET j == mJobs[currentQuery]
                     m == jobs[j].subs
                     k == subMaps[m][clientName]
                     left == [subMaps[m] EXCEPT ![clientName] = 0]
                 IN IF k # 0 /\ mChClosed[k]
                      THEN \* close of a closed channel
                           /\ mPanic' = TRUE
                           /\ UNCHANGED <<mJobs, mQms, jobs, subMaps, mChClosed>>
                      ELSE /\ mChClosed' = [c \in ChanIds |-> mChClosed[c] \/ c = k]
                           /\ subMaps' = [subMaps EXCEPT ![m] = left]
                           /\ UNCHANGED <<jobs, mJobs, mQms>>
                           /\ UNCHANGED mPanic
  /\ UNCHANGED <<nJobs, nSubs, mChBuf, drvPc, scraped, chQueries, chStarted,
                 mLastFan>>
  /\ UNCHANGED <<cbVars, rlVars, pumpVars, pipeVars, svVars, stVars,
               hashVars, qmVars, mqVars, dlVars, s0Vars, slVars, bgVars, plVars>>

\* Unsubscribe(clientName, baseQuery), all under m.mu; the range over m.jobs
\* stops at some job with that base query
Unsubscribe(clientName, baseQuery) ==
  /\ ~mPanic
  /\ LET found == {q \in Queries : mJobs[q] # 0 /\ jobs[mJobs[q]].base = baseQuery}
     IN IF found = {}
          THEN UNCHANGED <<mJobs, mQms, jobs, subMaps, mChClosed, mPanic>>
          ELSE \E currentQuery \in found :
                 LET j == mJobs[currentQuery]
                     m == jobs[j].subs
                     k == subMaps[m][clientName]
                     left == [subMaps[m] EXCEPT ![clientName] = 0]
                 IN IF k # 0 /\ mChClosed[k]
                      THEN \* close of a closed channel
                           /\ mPanic' = TRUE
                           /\ UNCHANGED <<mJobs, mQms, jobs, subMaps, mChClosed>>
                      ELSE /\ mChClosed' = [c \in ChanIds |-> mChClosed[c] \/ c = k]
                           /\ subMaps' = [subMaps EXCEPT ![m] = left]
                           /\ IF \A c \in MClients : left[c] = 0
                                THEN /\ jobs' = [jobs EXCEPT ![j].cancelled = TRUE]
                                     /\ mJobs' = [mJobs EXCEPT ![currentQuery] = 0]
                                     /\ mQms' = [mQms EXCEPT ![baseQuery] = NoQm]
                                ELSE UNCHANGED <<jobs, mJobs, mQms>>
                           /\ UNCHANGED mPanic
  /\ UNCHANGED <<nJobs, nSubs, mChBuf, drvPc, scraped, chQueries, chStarted,
                 mLastFan>>
  /\ UNCHANGED <<cbVars, rlVars, pumpVars, pipeVars, svVars, stVars,
               hashVars, qmVars, mqVars, dlVars, s0Vars, slVars, bgVars, plVars>>

\* the reader of channel k takes the oldest buffered image
SubscriberReceive(k) ==
  /\ ~mPanic
  /\ Len(mChBuf[k]) > 0
  /\ mChBuf' = [mChBuf EXCEPT ![k] = Tail(mChBuf[k])]
  /\ UNCHANGED <<mJobs, mQms, jobs, nJobs, subMaps, nSubs, mChClosed, drvPc,
                 mPanic, scraped, chQueries, chStarted, mLastFan>>
  /\ UNCHANGED <<cbVars, rlVars, pumpVars, pipeVars, svVars, stVars,
               hashVars, qmVars, mqVars, dlVars, s0Vars, slVars, bgVars, plVars>>

\* startScrapingJob: case image, ok := <-imageChan with ok true
DriverReceive(j) ==
  /\ ~mPanic
  /\ drvPc[j] = "loop"
  /\ scraped < MaxScraped
  /\ scraped' = scraped + 1
  /\ drvPc' = [drvPc EXCEPT ![j] = "fan"]
  /\ UNCHANGED <<mJobs, mQms, jobs, nJobs, subMaps, nSubs, mChBuf, mChClosed,
                 mPanic, chQueries, chStarted, mLastFan>>
  /\ UNCHANGED <<cbVars, rlVars, pumpVars, pipeVars, svVars, stVars,
               hashVars, qmVars, mqVars, dlVars, s0Vars, slVars, bgVars, plVars>>

\* startScrapingJob: case <-ctx.Done()
DriverCancelled(j) ==
  /\ ~mPanic
  /\ drvPc[j] = "loop"
  /\ jobs[j].cancelled
  /\ drvPc' = [drvPc EXCEPT ![j] = "done"]
  /\ UNCHANGED <<mJobs, mQms, jobs, nJobs, subMaps, nSubs, mChBuf, mChClosed,
                 mPanic, scraped, chQueries, chStarted, mLastFan>>
  /\ UNCHANGED <<cbVars, rlVars, pumpVars, pipeVars, svVars, stVars,
               hashVars, qmVars, mqVars, dlVars, s0Vars, slVars, bgVars, plVars>>

HasSpace(k) == Len(mChBuf[k]) < SubChanCap

\* select { case subChan <- image: default: } on an open channel
Offer_Evict(k, image) ==
  IF HasSpace(k) THEN Append(mChBuf[k], image) ELSE Append(Tail(mChBuf[k]), image)
Offer(k, image) ==
  IF HasSpace(k) THEN Append(mChBuf[k], image) ELSE mChBuf[k]

\* startScrapingJob: the fan-out of one image under m.mu, to the
\* subscribers of the job registered under the driver's query
DriverFanOut(j) ==
  /\ ~mPanic
  /\ drvPc[j] = "fan"
  /\ LET currentJob == mJobs[jobs[j].query]
     IN IF currentJob = 0
          THEN /\ drvPc' = [drvPc EXCEPT ![j] = "done"]
               /\ UNCHANGED <<mChBuf, mPanic, mLastFan>>
          ELSE LET targets == SubChans(jobs[currentJob].subs)
               IN IF \E k \in targets : mChClosed[k]
                    THEN \* send on a closed channel
                         /\ mPanic' = TRUE
                         /\ UNCHANGED <<mChBuf, drvPc, mLastFan>>
                    ELSE /\ mChBuf' = [k \in ChanIds |->
                                         IF k \in targets
                                           THEN Offer(k, ScrapedImage(j))
                                           ELSE mChBuf[k]]
                         /\ mLastFan' = [sent |-> {k \in targets : HasSpace(k)},
                                         dropped |-> {k \in targets : ~HasSpace(k)}]
                         /\ drvPc' = [drvPc EXCEPT ![j] = "loop"]
                         /\ UNCHANGED mPanic
  /\ UNCHANGED <<mJobs, mQms, jobs, nJobs, subMaps, nSubs, mChClosed, scraped,
                 chQueries, chStarted>>
  /\ UNCHANGED <<cbVars, rlVars, pumpVars, pipeVars, svVars, stVars,
               hashVars, qmVars, mqVars, dlVars, s0Vars, slVars, bgVars, plVars>>

\* handleJobFailure(oldJob), all under m.mu, then the driver returns
HandleJobFailure(oldJob) ==
  LET old == jobs[oldJob]
      held == SubChans(old.subs)
      r == GetNextQuery(mQms[old.base])
      newJob == nJobs + 1
  IN IF mJobs[old.query] = 0 \/ held = {}
       THEN /\ drvPc' = [drvPc EXCEPT ![oldJob] = "done"]
            /\ UNCHANGED <<mJobs, mQms, jobs, nJobs, mChClosed, mPanic, chStarted>>
       ELSE IF ~mQms[old.base].present
       THEN /\ drvPc' = [drvPc EXCEPT ![oldJob] = "done"]
            /\ UNCHANGED <<mJobs, mQms, jobs, nJobs, mChClosed, mPanic, chStarted>>
       ELSE IF ~r.ok
       THEN IF \E k \in held : mChClosed[k]
              THEN \* close of a closed channel
                   /\ mPanic' = TRUE
                   /\ UNCHANGED <<mJobs, mQms, jobs, nJobs, mChClosed, drvPc, chStarted>>
              ELSE /\ mChClosed' = [k \in ChanIds |-> mChClosed[k] \/ k \in held]
                   /\ mQms' = [mQms EXCEPT ![old.base] = NoQm]
                   /\ drvPc' = [drvPc EXCEPT ![oldJob] = "done"]
                   /\ UNCHANGED <<mJobs, jobs, nJobs, mPanic, chStarted>>
       ELSE /\ mQms' = [mQms EXCEPT ![old.base] = r.qm]
            /\ jobs' = [jobs EXCEPT ![newJob] =
                          [query |-> r.query, base |-> old.base,
                           subs |-> old.subs, cancelled |-> FALSE]]
            /\ nJobs' = newJob
            /\ mJobs' = [[mJobs EXCEPT ![r.query] = newJob] EXCEPT ![old.query] = 0]
            /\ drvPc' = [drvPc EXCEPT ![oldJob] = "done", ![newJob] = "loop"]
            /\ chStarted' = [k \in ChanIds |->
                               IF k \in held THEN chStarted[k] \cup {r.query}
                                             ELSE chStarted[k]]
            /\ UNCHANGED <<mChClosed, mPanic>>

\* startScrapingJob: Scrape returns an error, or imageChan is closed
DriverFails(j) ==
  /\ ~mPanic
  /\ drvPc[j] = "loop"
  /\ HandleJobFailure(j)
  /\ UNCHANGED <<subMaps, nSubs, mChBuf, scraped, chQueries, mLastFan>>
  /\ UNCHANGED <<cbVars, rlVars, pumpVars, pipeVars, svVars, stVars,
               hashVars, qmVars, mqVars, dlVars, s0Vars, slVars, bgVars, plVars>>

(***************************************************************************)
(* The scrape pipeline of a job: the Client.Scrape goroutine, which runs   *)
(* scrapeWithRetries inside circuitBreaker.Call, the download workers of   *)
(* Scraper.Scrape with the goroutine that closes their channel, and the    *)
(* job driver reading that channel.  The breaker is taken to be closed     *)
(* here, so Call lets every scrape through; its mutex is the client's one. *)
(***************************************************************************)
ScrapeJobs == {1, 2}
\* the worker pool of one Scrape call (numWorkers goroutines)
WorkerIds == {1, 2}
ScrapedCap == Cardinality(WorkerIds)

InitPipeline ==
  /\ scCtx = [j \in ScrapeJobs |-> "none"]
  /\ scMu = 0
  /\ scTask = [j \in ScrapeJobs |-> "none"]
  /\ resultChan = [j \in ScrapeJobs |-> 0]
  /\ resultClosed = [j \in ScrapeJobs |-> FALSE]
  /\ scWorker = [j \in ScrapeJobs |-> [w \in WorkerIds |-> "none"]]
  /\ scrapedChan = [j \in ScrapeJobs |-> 0]
  /\ scrapedClosed = [j \in ScrapeJobs |-> FALSE]
  /\ scDriver = [j \in ScrapeJobs |-> "none"]

Cancelled(j) == scCtx[j] = "cancelled"

\* go m.startScrapingJob(ctx, job): the driver calls Scraper.Scrape, which
\* calls Client.Scrape and starts the workers
StartJob(j) ==
  /\ scCtx[j] = "none"
  /\ scCtx' = [scCtx EXCEPT ![j] = "live"]
  /\ scTask' = [scTask EXCEPT ![j] = "lock"]
  /\ scWorker' = [scWorker EXCEPT ![j] = [w \in WorkerIds |-> "recv"]]
  /\ scDriver' = [scDriver EXCEPT ![j] = "loop"]
  /\ UNCHANGED <<scMu, resultChan, resultClosed, scrapedChan, scrapedClosed>>
  /\ UNCHANGED <<cbVars, rlVars, pumpVars, mgrVars, svVars, stVars,
               hashVars, qmVars, mqVars, dlVars, s0Vars, slVars, bgVars, plVars>>

\* job.cancel()
CancelJob(j) ==
  /\ scCtx[j] = "live"
  /\ scCtx' = [scCtx EXCEPT ![j] = "cancelled"]
  /\ UNCHANGED <<scMu, scTask, resultChan, resultClosed, scWorker,
                 scrapedChan, scrapedClosed, scDriver>>
  /\ UNCHANGED <<cbVars, rlVars, pumpVars, mgrVars, svVars, stVars,
               hashVars, qmVars, mqVars, dlVars, s0Vars, slVars, bgVars, plVars>>

\* circuitBreaker.Call: cb.mu.Lock(), then fn() with the mutex held
TaskLock(j) ==
  /\ scTask[j] = "lock"
  /\ scMu = 0
  /\ scMu' = j
  /\ scTask' = [scTask EXCEPT ![j] = "scroll"]
  /\ UNCHANGED <<scCtx, resultChan, resultClosed, scWorker, scrapedChan,
                 scrapedClosed, scDriver>>
  /\ UNCHANGED <<cbVars, rlVars, pumpVars, mgrVars, svVars, stVars,
               hashVars, qmVars, mqVars, dlVars, s0Vars, slVars, bgVars, plVars>>

\* fn returns: Call unlocks cb.mu and the deferred close(resultChan) runs
TaskReturns(j) ==
  /\ scMu' = 0
  /\ scTask' = [scTask EXCEPT ![j] = "closed"]
  /\ resultClosed' = [resultClosed EXCEPT ![j] = TRUE]

\* scrapeWithRetries, top of the loop: case <-ctx.Done() is taken when the
\* context is cancelled, else default: rateLimiter.wait() and the scroll
TaskScroll(j) ==
  /\ scTask[j] = "scroll"
  /\ IF Cancelled(j)
       THEN TaskReturns(j)
       ELSE /\ scTask' = [scTask EXCEPT ![j] = "wait"]
            /\ UNCHANGED <<scMu, resultClosed>>
  /\ UNCHANGED <<scCtx, resultChan, scWorker, scrapedChan, scrapedClosed, scDriver>>
  /\ UNCHANGED <<cbVars, rlVars, pumpVars, mgrVars, svVars, stVars,
               hashVars, qmVars, mqVars, dlVars, s0Vars, slVars, bgVars, plVars>>

\* scrapeWithRetries: a response with a new pin arrives
TaskResponse(j) ==
  /\ scTask[j] = "wait"
  /\ scTask' = [scTask EXCEPT ![j] = "send"]
  /\ UNCHANGED <<scCtx, scMu, resultChan, resultClosed, scWorker, scrapedChan,
                 scrapedClosed, scDriver>>
  /\ UNCHANGED <<cbVars, rlVars, pumpVars, mgrVars, svVars, stVars,
               hashVars, qmVars, mqVars, dlVars, s0Vars, slVars, bgVars, plVars>>

\* scrapeWithRetries: the scroll fails, or the fifth timeout in a row makes
\* it return ErrQueryExhausted
TaskEnds(j) ==
  /\ scTask[j] = "wait"
  /\ TaskReturns(j)
  /\ UNCHANGED <<scCtx, resultChan, scWorker, scrapedChan, scrapedClosed, scDriver>>
  /\ UNCHANGED <<cbVars, rlVars, pumpVars, mgrVars, svVars, stVars,
               hashVars, qmVars, mqVars, dlVars, s0Vars, slVars, bgVars, plVars>>

\* scrapeWithRetries: select { case resultChan <- ...: case <-ctx.Done(): }
TaskSend(j) ==
  /\ scTask[j] = "send"
  /\ \/ /\ resultChan[j] < ResultCap
        /\ resultChan' = [resultChan EXCEPT ![j] = resultChan[j] + 1]
        /\ scTask' = [scTask EXCEPT ![j] = "scroll"]
        /\ UNCHANGED <<scMu, resultClosed>>
     \/ /\ Cancelled(j)
        /\ TaskReturns(j)
        /\ UNCHANGED resultChan
  /\ UNCHANGED <<scCtx, scWorker, scrapedChan, scrapedClosed, scDriver>>
  /\ UNCHANGED <<cbVars, rlVars, pumpVars, mgrVars, svVars, stVars,
               hashVars, qmVars, mqVars, dlVars, s0Vars, slVars, bgVars, plVars>>

\* worker: select { case <-ctx.Done(): case imgResult, ok := <-pinterestImageChan: }
WorkerReceive(j, w) ==
  /\ scWorker[j][w] = "recv"
  /\ \/ /\ Cancelled(j)
        /\ scWorker' = [scWorker EXCEPT ![j][w] = "done"]
        /\ UNCHANGED resultChan
     \/ /\ resultChan[j] > 0
        /\ resultChan' = [resultChan EXCEPT ![j] = resultChan[j] - 1]
        /\ scWorker' = [scWorker EXCEPT ![j][w] = "download"]
     \/ /\ resultChan[j] = 0
        /\ resultClosed[j]
        /\ scWorker' = [scWorker EXCEPT ![j][w] = "done"]
        /\ UNCHANGED resultChan
  /\ UNCHANGED <<scCtx, scMu, scTask, resultClosed, scrapedChan, scrapedClosed, scDriver>>
  /\ UNCHANGED <<cbVars, rlVars, pumpVars, mgrVars, svVars, stVars,
               hashVars, qmVars, mqVars, dlVars, s0Vars, slVars, bgVars, plVars>>

\* worker: downloadImage and image.Decode; on an error it continues
WorkerDownload(j, w) ==
  /\ scWorker[j][w] = "download"
  /\ \E ok \in BOOLEAN :
       scWorker' = [scWorker EXCEPT ![j][w] = IF ok THEN "send" ELSE "recv"]
  /\ UNCHANGED <<scCtx, scMu, scTask, resultChan, resultClosed, scrapedChan,
                 scrapedClosed, scDriver>>
  /\ UNCHANGED <<cbVars, rlVars, pumpVars, mgrVars, svVars, stVars,
               hashVars, qmVars, mqVars, dlVars, s0Vars, slVars, bgVars, plVars>>

\* the send of a worker that does not watch the context
WorkerSend_NoDone(j, w) ==
  /\ scWorker[j][w] = "send"
  /\ scrapedChan[j] < ScrapedCap
  /\ scrapedChan' = [scrapedChan EXCEPT ![j] = scrapedChan[j] + 1]
  /\ scWorker' = [scWorker EXCEPT ![j][w] = "recv"]
  /\ UNCHANGED <<scCtx, scMu, scTask, resultChan, resultClosed, scrapedClosed, scDriver>>
  /\ UNCHANGED <<cbVars, rlVars, pumpVars, mgrVars, svVars, stVars,
               hashVars, qmVars, mqVars, dlVars, s0Vars, slVars, bgVars, plVars>>

\* worker: select { case scrapedImageChan <- ...: case <-ctx.Done(): }
WorkerSend(j, w) ==
  /\ scWorker[j][w] = "send"
  /\ \/ /\ scrapedChan[j] < ScrapedCap
        /\ scrapedChan' = [scrapedChan EXCEPT ![j] = scrapedChan[j] + 1]
        /\ scWorker' = [scWorker EXCEPT ![j][w] = "recv"]
     \/ /\ Cancelled(j)
        /\ scWorker' = [scWorker EXCEPT ![j][w] = "done"]
        /\ UNCHANGED scrapedChan
  /\ UNCHANGED <<scCtx, scMu, scTask, resultChan, resultClosed, scrapedClosed, scDriver>>
  /\ UNCHANGED <<cbVars, rlVars, pumpVars, mgrVars, svVars, stVars,
               hashVars, qmVars, mqVars, dlVars, s0Vars, slVars, bgVars, plVars>>

\* wg.Wait(); close(scrapedImageChan)
CloseScraped(j) ==
  /\ ~scrapedClosed[j]
  /\ \A w \in WorkerIds : scWorker[j][w] = "done"
  /\ scrapedClosed' = [scrapedClosed EXCEPT ![j] = TRUE]
  /\ UNCHANGED <<scCtx, scMu, scTask, resultChan, resultClosed, scWorker,
                 scrapedChan, scDriver>>
  /\ UNCHANGED <<cbVars, rlVars, pumpVars, mgrVars, svVars, stVars,
               hashVars, qmVars, mqVars, dlVars, s0Vars, slVars, bgVars, plVars>>

\* startScrapingJob: select { case <-ctx.Done(): case image, ok := <-imageChan: }
\* a received image is fanned out without blocking
DriverLoop(j) ==
  /\ scDriver[j] = "loop"
  /\ \/ /\ Cancelled(j)
        /\ scDriver' = [scDriver EXCEPT ![j] = "done"]
        /\ UNCHANGED scrapedChan
     \/ /\ scrapedChan[j] > 0
        /\ scrapedChan' = [scrapedChan EXCEPT ![j] = scrapedChan[j] - 1]
        /\ UNCHANGED scDriver
     \/ /\ scrapedChan[j] = 0
        /\ scrapedClosed[j]
        /\ scDriver' = [scDriver EXCEPT ![j] = "done"]
        /\ UNCHANGED scrapedChan
  /\ UNCHANGED <<scCtx, scMu, scTask, resultChan, resultClosed, scWorker, scrapedClosed>>
  /\ UNCHANGED <<cbVars, rlVars, pumpVars, mgrVars, svVars, stVars,
               hashVars, qmVars, mqVars, dlVars, s0Vars, slVars, bgVars, plVars>>

\* the steps of the Client.Scrape goroutine of job j
TaskStep(j) ==
  TaskLock(j) \/ TaskScroll(j) \/ TaskResponse(j) \/ TaskEnds(j) \/ TaskSend(j)

\* the steps of worker w of job j
WorkerStep(j, w) == WorkerReceive(j, w) \/ WorkerDownload(j, w) \/ WorkerSend(j, w)

(***************************************************************************)
(* The synchronous scrape handler of server/server.go: OnMessage runs the  *)
(* scrape and streams up to req.Limit unseen images on the socket.         *)
(***************************************************************************)
\* images the scrape can yield; the pin ID is a string
SvImages ==
  {[id |-> "1", hash |-> 1], [id |-> "2", hash |-> 1], [id |-> "x7", hash |-> 2]}
SvNoImage == [id |-> "", hash |-> 0]

\* strconv.ParseUint(img.ID, 10, 64) with its error dropped: the value of
\* a decimal string, 0 for anything else
ParseUint(str) ==
  CASE str = "1" -> 1
    [] str = "2" -> 2
    [] OTHER -> 0

InitSync ==
  /\ svPc = "idle"
  /\ svSock = TRUE
  /\ svLimit = 0
  /\ svCount = 0
  /\ svFetched = 0
  /\ svImg = SvNoImage
  /\ svSeen = {}
  /\ svFrames = 0
  /\ svSkipped = 0

\* if count >= req.Limit { break }
LimitReached_Late == svCount > svLimit
LimitReached == svCount >= svLimit

\* OnMessage up to the start of the loop; a failing Scrape returns at once
SvRequest(limit) ==
  /\ svPc = "idle"
  /\ svSock
  /\ svLimit' = limit
  /\ svCount' = 0
  /\ svFetched' = 0
  /\ svFrames' = 0
  /\ svSkipped' = 0
  /\ \E err \in BOOLEAN : svPc' = IF err THEN "idle" ELSE "range"
  /\ UNCHANGED <<svSock, svImg, svSeen>>
  /\ UNCHANGED <<cbVars, rlVars, pumpVars, mgrVars, pipeVars, stVars,
               hashVars, qmVars, mqVars, dlVars, s0Vars, slVars, bgVars, plVars>>

\* for img := range imageChan: the next image, and the limit check
SvReceive(img) ==
  /\ svPc = "range"
  /\ svFetched < MaxStream
  /\ svFetched' = svFetched + 1
  /\ IF LimitReached
       THEN svPc' = "idle" /\ svImg' = SvNoImage
       ELSE svPc' = "hasseen" /\ svImg' = img
  /\ UNCHANGED <<svSock, svLimit, svCount, svSeen, svFrames, svSkipped>>
  /\ UNCHANGED <<cbVars, rlVars, pumpVars, mgrVars, pipeVars, stVars,
               hashVars, qmVars, mqVars, dlVars, s0Vars, slVars, bgVars, plVars>>

\* for img := range imageChan: the channel is closed
SvStreamEnds ==
  /\ svPc = "range"
  /\ svPc' = "idle"
  /\ UNCHANGED <<svSock, svLimit, svCount, svFetched, svImg, svSeen, svFrames,
                 svSkipped>>
  /\ UNCHANGED <<cbVars, rlVars, pumpVars, mgrVars, pipeVars, stVars,
               hashVars, qmVars, mqVars, dlVars, s0Vars, slVars, bgVars, plVars>>

\* seen, err := c.db.HasClientSeenImage(clientName, img.Hash)
SvHasSeen ==
  /\ svPc = "hasseen"
  /\ \E err \in BOOLEAN :
       IF err
         THEN svPc' = "range" /\ UNCHANGED svSkipped
         ELSE IF HashKey(svImg.hash) \in svSeen
                THEN svPc' = "range" /\ svSkipped' = svSkipped + 1
                ELSE svPc' = "bin" /\ UNCHANGED svSkipped
  /\ UNCHANGED <<svSock, svLimit, svCount, svFetched, svImg, svSeen, svFrames>>
  /\ UNCHANGED <<cbVars, rlVars, pumpVars, mgrVars, pipeVars, stVars,
               hashVars, qmVars, mqVars, dlVars, s0Vars, slVars, bgVars, plVars>>

\* socket.WriteMessage(gws.OpcodeBinary, img.Data); on an error OnMessage returns
SvWriteBinary ==
  /\ svPc = "bin"
  /\ IF svSock
       THEN svPc' = "text" /\ svFrames' = svFrames + 1
       ELSE svPc' = "idle" /\ UNCHANGED svFrames
  /\ UNCHANGED <<svSock, svLimit, svCount, svFetched, svImg, svSeen, svSkipped>>
  /\ UNCHANGED <<cbVars, rlVars, pumpVars, mgrVars, pipeVars, stVars,
               hashVars, qmVars, mqVars, dlVars, s0Vars, slVars, bgVars, plVars>>

\* socket.WriteMessage(gws.OpcodeText, "pin:<id>"), its result dropped
SvWriteText ==
  /\ svPc = "text"
  /\ svPc' = "mark"
  /\ UNCHANGED <<svSock, svLimit, svCount, svFetched, svImg, svSeen, svFrames,
                 svSkipped>>
  /\ UNCHANGED <<cbVars, rlVars, pumpVars, mgrVars, pipeVars, stVars,
               hashVars, qmVars, mqVars, dlVars, s0Vars, slVars, bgVars, plVars>>

\* c.db.MarkImageAsSeen(clientName, img.Hash); an error is logged
SvMarkSeen ==
  /\ svPc = "mark"
  /\ svPc' = "markpin"
  /\ \E err \in BOOLEAN :
       svSeen' = IF err THEN svSeen ELSE svSeen \cup {HashKey(svImg.hash)}
  /\ UNCHANGED <<svSock, svLimit, svCount, svFetched, svImg, svFrames, svSkipped>>
  /\ UNCHANGED <<cbVars, rlVars, pumpVars, mgrVars, pipeVars, stVars,
               hashVars, qmVars, mqVars, dlVars, s0Vars, slVars, bgVars, plVars>>

\* pinHash, _ := strconv.ParseUint(img.ID, 10, 64);
\* c.db.MarkImageAsSeen(clientName, pinHash); count++
SvMarkPin ==
  /\ svPc = "markpin"
  /\ svPc' = "range"
  /\ \E err \in BOOLEAN :
       svSeen' = IF err THEN svSeen ELSE svSeen \cup {HashKey(ParseUint(svImg.id))}
  /\ svCount' = svCount + 1
  /\ UNCHANGED <<svSock, svLimit, svFetched, svImg, svFrames, svSkipped>>
  /\ UNCHANGED <<cbVars, rlVars, pumpVars, mgrVars, pipeVars, stVars,
               hashVars, qmVars, mqVars, dlVars, s0Vars, slVars, bgVars, plVars>>

\* the peer closes the connection
SvSockCloses ==
  /\ svSock
  /\ svSock' = FALSE
  /\ UNCHANGED <<svPc, svLimit, svCount, svFetched, svImg, svSeen, svFrames,
                 svSkipped>>
  /\ UNCHANGED <<cbVars, rlVars, pumpVars, mgrVars, pipeVars, stVars,
               hashVars, qmVars, mqVars, dlVars, s0Vars, slVars, bgVars, plVars>>

(***************************************************************************)
(* Direct calls of the history store.  Each call is one bbolt transaction  *)
(* (db.View or db.Update), so concurrent callers are an interleaving of    *)
(* whole calls.                                                            *)
(***************************************************************************)
NoCall == [n |-> 0, client |-> "", hash |-> 0, seen |-> FALSE, err |-> FALSE]

InitStore ==
  /\ stLast = NoCall
  /\ stMarked = {}

\* what the other variables of the server component do in a store call
StoreOnly ==
  UNCHANGED <<sockState, lastFrame, jobOf, ch, chClosed, sentTotal, pSock,
              pPc, pImg, pHist, delivered, storeFailed>>

\* d.HasClientSeenImage(clientName, hash); err is a failing db.View
DbHasSeen(clientName, hash) ==
  /\ \E err \in BOOLEAN :
       stLast' = [n |-> 1 - stLast.n, client |-> clientName, hash |-> hash,
                  seen |-> IF err THEN FALSE
                           ELSE HasClientSeenImage(clientName, hash),
                  err |-> err]
  /\ UNCHANGED <<db, stMarked>>
  /\ StoreOnly
  /\ UNCHANGED <<cbVars, rlVars, mgrVars, pipeVars, svVars, hashVars, qmVars,
                 mqVars, dlVars, s0Vars, slVars, bgVars, plVars>>

\* d.MarkImageAsSeen(clientName, hash); err is a failing db.Update, which
\* commits nothing
DbMarkSeen(clientName, hash) ==
  /\ \E err \in BOOLEAN :
       IF err
         THEN UNCHANGED <<db, stMarked>>
         ELSE /\ db' = MarkImageAsSeen(clientName, hash)
              /\ stMarked' = stMarked \cup {<<clientName, hash>>}
  /\ UNCHANGED stLast
  /\ StoreOnly
  /\ UNCHANGED <<cbVars, rlVars, mgrVars, pipeVars, svVars, hashVars, qmVars,
                 mqVars, dlVars, s0Vars, slVars, bgVars, plVars>>

\* d.ClearClientHistory(clientName)
DbClear(clientName) ==
  /\ \E err \in BOOLEAN :
       IF err
         THEN UNCHANGED <<db, stMarked>>
         ELSE /\ db' = ClearClientHistory(clientName)
              /\ stMarked' = {e \in stMarked : e[1] # clientName}
  /\ UNCHANGED stLast
  /\ StoreOnly
  /\ UNCHANGED <<cbVars, rlVars, mgrVars, pipeVars, svVars, hashVars, qmVars,
                 mqVars, dlVars, s0Vars, slVars, bgVars, plVars>>

(***************************************************************************)
(* Specifications                                                          *)
(***************************************************************************)
(***************************************************************************)
(* imaging.DHash.  The model starts from gray, the 9x8 grayscale image     *)
(* that steps 1 and 2 of DHash produce; a uint64 is the function from its  *)
(* bit positions 0..63 (bit b weighs 2^b) to 0 or 1.                       *)
(***************************************************************************)
BitPositions == 0..(Uint64Bits - 1)
Zero64 == [b \in BitPositions |-> 0]
AllOnes64 == [b \in BitPositions |-> 1]

\* hash |= 1
Or1(hash) == [hash EXCEPT ![0] = 1]
\* hash <<= 1 on a uint64: bit 63 is shifted out
ShiftLeft1(hash) ==
  [b \in BitPositions |-> IF b = 0 THEN 0 ELSE hash[b - 1]]

\* gray.GrayAt(x, y).Y
GrayAt(gray, x, y) == gray[y][x]

\* step 3 of DHash from comparison k = 8 * i + j on
RECURSIVE DHashLoop(_, _, _)
DHashLoop(gray, k, hash) ==
  IF k = HashHeight * (HashWidth - 1)
    THEN hash
    ELSE LET i == k \div (HashWidth - 1)
             j == k % (HashWidth - 1)
             set == IF GrayAt(gray, j, i) > GrayAt(gray, j + 1, i)
                      THEN Or1(hash)
                      ELSE hash
         IN DHashLoop(gray, k + 1, ShiftLeft1(set))

\* imaging.DHash(img), from the grayscale image on
DHash(gray) == DHashLoop(gray, 0, Zero64)

\* the grayscale images hashed: a constant image, one in which every pixel
\* is brighter than its right neighbour, one in which none is, and each of
\* them with one pixel set to a gray level of its own
GrayLevels == {(MaxGray * n) \div (MaxLevels - 1) : n \in 0..(MaxLevels - 1)}
BaseKinds == {"flat", "desc", "asc"}
BaseImage(kind) ==
  [y \in 0..(HashHeight - 1) |->
    [x \in 0..(HashWidth - 1) |->
      CASE kind = "flat" -> 100
        [] kind = "desc" -> 200 - 10 * x
        [] OTHER -> 50 + 10 * x]]
GrayImages ==
  {BaseImage(kind) : kind \in BaseKinds} \cup
  {[BaseImage(kind) EXCEPT ![y][x] = v] :
     kind \in BaseKinds, y \in 0..(HashHeight - 1),
     x \in 0..(HashWidth - 1), v \in GrayLevels}

InitHash ==
  /\ hPc = "idle"
  /\ hImg = <<>>
  /\ hHash = <<>>

\* a worker downloads and decodes an image
HashDecode(gray) ==
  /\ hPc = "idle"
  /\ hPc' = "decoded"
  /\ hImg' = gray
  /\ UNCHANGED hHash
  /\ UNCHANGED <<cbVars, rlVars, pumpVars, mgrVars, pipeVars, svVars, stVars,
                 qmVars, mqVars, dlVars, s0Vars, slVars, bgVars, plVars>>

\* hash := imaging.DHash(imgDec)
HashCompute ==
  /\ hPc = "decoded"
  /\ hPc' = "hashed"
  /\ hHash' = DHash(hImg)
  /\ UNCHANGED hImg
  /\ UNCHANGED <<cbVars, rlVars, pumpVars, mgrVars, pipeVars, svVars, stVars,
                 qmVars, mqVars, dlVars, s0Vars, slVars, bgVars, plVars>>

\* the worker sends the ScrapedImage and takes the next pin
HashNext ==
  /\ hPc = "hashed"
  /\ hPc' = "idle"
  /\ hImg' = <<>>
  /\ hHash' = <<>>
  /\ UNCHANGED <<cbVars, rlVars, pumpVars, mgrVars, pipeVars, svVars, stVars,
                 qmVars, mqVars, dlVars, s0Vars, slVars, bgVars, plVars>>

(***************************************************************************)
(* query.QueryManager, called by several goroutines                        *)
(***************************************************************************)
QmQueries == {"q1", "q2", "q3"}
QmCallers == {1, 2}
\* the lists of distinct queries of length up to MaxQueries
QmLists ==
  {list \in UNION {[1..n -> QmQueries] : n \in 0..MaxQueries} :
     \A a, b \in DOMAIN list : a # b => list[a] # list[b]}
NoRes == [query |-> "", ok |-> FALSE, qm |-> NoQm]

InitQm ==
  /\ qmgr = NoQm
  /\ qmMu = 0
  /\ qmPc = [g \in QmCallers |-> "idle"]
  /\ qmRes = [g \in QmCallers |-> NoRes]
  /\ qmLog = <<>>

\* query.NewQueryManager(queries)
QmNew(queries) ==
  /\ ~qmgr.present
  /\ qmgr' = NewQueryManager(queries)
  /\ UNCHANGED <<qmMu, qmPc, qmRes, qmLog>>
  /\ UNCHANGED <<cbVars, rlVars, pumpVars, mgrVars, pipeVars, svVars, stVars,
                 hashVars, mqVars, dlVars, s0Vars, slVars, bgVars, plVars>>

\* qm.mu.Lock()
QmLock_NoMutex(g) == TRUE
QmLock(g) == qmMu = 0

\* GetNextQuery: goroutine g calls and takes the mutex
QmCall(g) ==
  /\ qmgr.present
  /\ qmPc[g] = "idle"
  /\ Len(qmLog) + Cardinality({h \in QmCallers : qmPc[h] # "idle"}) < MaxQmCalls
  /\ QmLock(g)
  /\ qmMu' = g
  /\ qmPc' = [qmPc EXCEPT ![g] = "locked"]
  /\ UNCHANGED <<qmgr, qmRes, qmLog>>
  /\ UNCHANGED <<cbVars, rlVars, pumpVars, mgrVars, pipeVars, svVars, stVars,
                 hashVars, mqVars, dlVars, s0Vars, slVars, bgVars, plVars>>

\* GetNextQuery: the index check and query := qm.queries[qm.index]
QmRead(g) ==
  /\ qmPc[g] = "locked"
  /\ qmRes' = [qmRes EXCEPT ![g] = GetNextQuery(qmgr)]
  /\ qmPc' = [qmPc EXCEPT ![g] = "read"]
  /\ UNCHANGED <<qmgr, qmMu, qmLog>>
  /\ UNCHANGED <<cbVars, rlVars, pumpVars, mgrVars, pipeVars, svVars, stVars,
                 hashVars, mqVars, dlVars, s0Vars, slVars, bgVars, plVars>>

\* GetNextQuery: qm.index++, the return and the deferred qm.mu.Unlock()
QmReturn(g) ==
  /\ qmPc[g] = "read"
  /\ qmgr' = qmRes[g].qm
  /\ qmLog' = Append(qmLog, [g |-> g, query |-> qmRes[g].query,
                             ok |-> qmRes[g].ok])
  /\ qmMu' = 0
  /\ qmPc' = [qmPc EXCEPT ![g] = "idle"]
  /\ qmRes' = [qmRes EXCEPT ![g] = NoRes]
  /\ UNCHANGED <<cbVars, rlVars, pumpVars, mgrVars, pipeVars, svVars, stVars,
                 hashVars, mqVars, dlVars, s0Vars, slVars, bgVars, plVars>>

(***************************************************************************)
(* scraper.QueryManager: queries built from a modifier and a base query     *)
(***************************************************************************)
MqCallers == {1, 2}
BaseQueries == {"cats", "dogs"}
Modifiers == {"cute"}

\* fmt.Sprintf("%s %s", modifier, base)
Sprintf2(modifier, base) == modifier \o " " \o base
MqQueries == {Sprintf2(modifier, base) : modifier \in Modifiers, base \in BaseQueries}

InitMq ==
  /\ mqUsed = [q \in MqQueries |-> -1]
  /\ mqMu = 0
  /\ mqPc = [g \in MqCallers |-> "idle"]
  /\ mqDepth = [g \in MqCallers |-> 0]
  /\ mqNow = 0
  /\ mqReturns = 0

\* a goroutine calls qm.GetNextQuery()
MqCall(g) ==
  /\ mqPc[g] = "idle"
  /\ mqReturns + Cardinality({h \in MqCallers : mqPc[h] # "idle"}) < MaxMqCalls
  /\ mqPc' = [mqPc EXCEPT ![g] = "lock"]
  /\ UNCHANGED <<mqUsed, mqMu, mqDepth, mqNow, mqReturns>>
  /\ UNCHANGED <<cbVars, rlVars, pumpVars, mgrVars, pipeVars, svVars, stVars,
                 hashVars, qmVars, dlVars, s0Vars, slVars, bgVars, plVars>>

\* qm.mu.Lock(): a sync.RWMutex is not reentrant, the goroutine that holds
\* it waits like any other
MqLock(g) ==
  /\ mqPc[g] = "lock"
  /\ mqMu = 0
  /\ mqMu' = g
  /\ mqPc' = [mqPc EXCEPT ![g] = "draw"]
  /\ UNCHANGED <<mqUsed, mqDepth, mqNow, mqReturns>>
  /\ UNCHANGED <<cbVars, rlVars, pumpVars, mgrVars, pipeVars, svVars, stVars,
                 hashVars, qmVars, dlVars, s0Vars, slVars, bgVars, plVars>>

\* the query was emitted less than an hour ago
UsedRecently(query) == mqUsed[query] # -1 /\ mqNow - mqUsed[query] < Hour

\* the draw of base and modifier, the check of qm.used, and either the
\* recursive qm.GetNextQuery() or the return with the deferred Unlock
MqDraw(g, base, modifier) ==
  /\ mqPc[g] = "draw"
  /\ LET query == Sprintf2(modifier, base) IN
       IF UsedRecently(query)
         THEN /\ mqPc' = [mqPc EXCEPT ![g] = "lock"]
              /\ mqDepth' = [mqDepth EXCEPT ![g] = @ + 1]
              /\ UNCHANGED <<mqUsed, mqMu, mqReturns>>
         ELSE /\ mqUsed' = [mqUsed EXCEPT ![query] = mqNow]
              /\ mqMu' = 0
              /\ mqPc' = [mqPc EXCEPT ![g] = "idle"]
              /\ mqDepth' = [mqDepth EXCEPT ![g] = 0]
              /\ mqReturns' = mqReturns + 1
  /\ UNCHANGED mqNow
  /\ UNCHANGED <<cbVars, rlVars, pumpVars, mgrVars, pipeVars, svVars, stVars,
                 hashVars, qmVars, dlVars, s0Vars, slVars, bgVars, plVars>>

\* time passes
MqTick ==
  /\ mqNow < MaxMqTime
  /\ mqNow' = mqNow + 1
  /\ UNCHANGED <<mqUsed, mqMu, mqPc, mqDepth, mqReturns>>
  /\ UNCHANGED <<cbVars, rlVars, pumpVars, mgrVars, pipeVars, svVars, stVars,
                 hashVars, qmVars, dlVars, s0Vars, slVars, bgVars, plVars>>

(***************************************************************************)
(* Downloader.Run and Downloader.processImage.  Database errors are not    *)
(* modelled; a failing download is.                                        *)
(***************************************************************************)
DlWorkers == {1, 2}
\* the scraped pins: pins 101 and 102 carry the same picture
DlPins == {[id |-> "101", hash |-> 1], [id |-> "102", hash |-> 1],
           [id |-> "103", hash |-> 2]}
DlNoPin == [id |-> "", hash |-> 0]

\* hashStr := fmt.Sprintf("%d", hash)
HashStr(hash) == ToString(hash)

\* d.db.Exists(id)
Exists(id) == id \in dlDb

InitDl ==
  /\ dlPending = DlPins
  /\ dlDb = {}
  /\ dlPc = [w \in DlWorkers |-> "idle"]
  /\ dlImg = [w \in DlWorkers |-> DlNoPin]
  /\ dlSaved = <<>>

DlGoto(w, pc) == dlPc' = [dlPc EXCEPT ![w] = pc]
DlReturn(w) ==
  /\ dlPc' = [dlPc EXCEPT ![w] = "idle"]
  /\ dlImg' = [dlImg EXCEPT ![w] = DlNoPin]

\* for img := range images
DlReceive(w, img) ==
  /\ dlPc[w] = "idle"
  /\ img \in dlPending
  /\ dlPending' = dlPending \ {img}
  /\ dlImg' = [dlImg EXCEPT ![w] = img]
  /\ DlGoto(w, "existsId")
  /\ UNCHANGED <<dlDb, dlSaved>>
  /\ UNCHANGED <<cbVars, rlVars, pumpVars, mgrVars, pipeVars, svVars, stVars,
                 hashVars, qmVars, mqVars, s0Vars, slVars, bgVars, plVars>>

\* 1. d.db.Exists(img.ID)
DlExistsId(w) ==
  /\ dlPc[w] = "existsId"
  /\ IF Exists(dlImg[w].id)
       THEN DlReturn(w)
       ELSE DlGoto(w, "download") /\ UNCHANGED dlImg
  /\ UNCHANGED <<dlPending, dlDb, dlSaved>>
  /\ UNCHANGED <<cbVars, rlVars, pumpVars, mgrVars, pipeVars, svVars, stVars,
                 hashVars, qmVars, mqVars, s0Vars, slVars, bgVars, plVars>>

\* 2. and 3. http.Get, image.Decode and imaging.DHash; err is a failing
\* download or decode
DlDownload(w) ==
  /\ dlPc[w] = "download"
  /\ \E err \in BOOLEAN :
       IF err
         THEN DlReturn(w)
         ELSE DlGoto(w, "existsHash") /\ UNCHANGED dlImg
  /\ UNCHANGED <<dlPending, dlDb, dlSaved>>
  /\ UNCHANGED <<cbVars, rlVars, pumpVars, mgrVars, pipeVars, svVars, stVars,
                 hashVars, qmVars, mqVars, s0Vars, slVars, bgVars, plVars>>

\* 4. d.db.Exists(hashStr); a known hash adds the pin ID and returns
DlExistsHash(w) ==
  /\ dlPc[w] = "existsHash"
  /\ IF Exists(HashStr(dlImg[w].hash))
       THEN /\ dlDb' = dlDb \cup {dlImg[w].id}
            /\ DlReturn(w)
       ELSE /\ DlGoto(w, "save")
            /\ UNCHANGED <<dlDb, dlImg>>
  /\ UNCHANGED <<dlPending, dlSaved>>
  /\ UNCHANGED <<cbVars, rlVars, pumpVars, mgrVars, pipeVars, svVars, stVars,
                 hashVars, qmVars, mqVars, s0Vars, slVars, bgVars, plVars>>

\* 5. os.WriteFile(filePath, imageData, 0644)
DlSave(w) ==
  /\ dlPc[w] = "save"
  /\ dlSaved' = Append(dlSaved, dlImg[w])
  /\ DlGoto(w, "addId")
  /\ UNCHANGED <<dlPending, dlDb, dlImg>>
  /\ UNCHANGED <<cbVars, rlVars, pumpVars, mgrVars, pipeVars, svVars, stVars,
                 hashVars, qmVars, mqVars, s0Vars, slVars, bgVars, plVars>>

\* 6. d.db.Add(img.ID)
DlAddId(w) ==
  /\ dlPc[w] = "addId"
  /\ dlDb' = dlDb \cup {dlImg[w].id}
  /\ DlGoto(w, "addHash")
  /\ UNCHANGED <<dlPending, dlImg, dlSaved>>
  /\ UNCHANGED <<cbVars, rlVars, pumpVars, mgrVars, pipeVars, svVars, stVars,
                 hashVars, qmVars, mqVars, s0Vars, slVars, bgVars, plVars>>

\* 6. d.db.Add(hashStr)
DlAddHash(w) ==
  /\ dlPc[w] = "addHash"
  /\ dlDb' = dlDb \cup {HashStr(dlImg[w].hash)}
  /\ DlReturn(w)
  /\ UNCHANGED <<dlPending, dlSaved>>
  /\ UNCHANGED <<cbVars, rlVars, pumpVars, mgrVars, pipeVars, svVars, stVars,
                 hashVars, qmVars, mqVars, s0Vars, slVars, bgVars, plVars>>

(***************************************************************************)
(* Client.Scrape as part_000 has it: every call makes a rate limiter and a *)
(* circuit breaker of its own.  The calls are made one after the other.    *)
(***************************************************************************)
\* reliability.NewCircuitBreaker(3, time.Minute)
NewCircuitBreaker == [state |-> "closed", failures |-> 0]

InitScrape0 ==
  /\ s0Breaker = NewCircuitBreaker
  /\ s0Pc = "idle"
  /\ s0Log = <<>>

\* Scrape: circuitBreaker := reliability.NewCircuitBreaker(3, time.Minute)
S0Scrape ==
  /\ s0Pc = "idle"
  /\ Len(s0Log) < MaxScrapes
  /\ s0Breaker' = NewCircuitBreaker
  /\ s0Pc' = "call"
  /\ UNCHANGED s0Log
  /\ UNCHANGED <<cbVars, rlVars, pumpVars, mgrVars, pipeVars, svVars, stVars,
                 hashVars, qmVars, mqVars, dlVars, slVars, bgVars, plVars>>

\* circuitBreaker.Call up to the invocation of fn: an open breaker whose
\* timeout has not passed returns ErrBreakerOpen and resultChan is closed
\* without a pin; no time passes between the calls
S0Call ==
  /\ s0Pc = "call"
  /\ IF s0Breaker.state = "open"
       THEN /\ s0Log' = Append(s0Log, ErrBreakerOpen)
            /\ s0Pc' = "idle"
       ELSE /\ s0Pc' = "infn"
            /\ UNCHANGED s0Log
  /\ UNCHANGED s0Breaker
  /\ UNCHANGED <<cbVars, rlVars, pumpVars, mgrVars, pipeVars, svVars, stVars,
                 hashVars, qmVars, mqVars, dlVars, slVars, bgVars, plVars>>

\* scrapeWithRetries launches and drives the browser and returns err; Call
\* counts it and resultChan is closed
S0FnReturns(err) ==
  /\ s0Pc = "infn"
  /\ s0Breaker' =
       IF err # "nil"
         THEN [state |-> IF Tripped(s0Breaker.failures + 1)
                           THEN "open" ELSE s0Breaker.state,
               failures |-> s0Breaker.failures + 1]
         ELSE NewCircuitBreaker
  /\ s0Log' = Append(s0Log, err)
  /\ s0Pc' = "idle"
  /\ UNCHANGED <<cbVars, rlVars, pumpVars, mgrVars, pipeVars, svVars, stVars,
                 hashVars, qmVars, mqVars, dlVars, slVars, bgVars, plVars>>

(***************************************************************************)
(* The job driver behind an open breaker.  Scraper.Scrape hands the query  *)
(* to Client.Scrape, whose goroutine closes resultChan as soon as          *)
(* circuitBreaker.Call returns; the workers then end, the scraped-image    *)
(* channel is closed and the driver takes the closed channel for an        *)
(* exhausted query.                                                        *)
(***************************************************************************)
\* Call returns ErrBreakerOpen without running fn
BreakerRejects == cbState = "open" /\ ~TimeoutElapsed

\* startScrapingJob of job j when the breaker rejects its scrape: imageChan
\* is closed without an image and handleJobFailure runs
ScrapeRejected(j) ==
  /\ BreakerRejects
  /\ DriverFails(j)

(***************************************************************************)
(* Client.scrapeWithRetries: the scroll-and-harvest loop.  A reader takes  *)
(* the pins from resultChan, so a send waits only for the reader or the    *)
(* cancellation.                                                           *)
(***************************************************************************)
\* the results a response body can carry: pin "2" comes once without
\* images.orig.url
PinWithUrl(id) == [id |-> id, url |-> "u" \o id]
PinNoUrl(id) == [id |-> id, url |-> ""]
Bodies == {<<>>,
           <<PinWithUrl("1"), PinNoUrl("2")>>,
           <<PinWithUrl("1"), PinWithUrl("2")>>,
           <<PinWithUrl("1"), PinWithUrl("1")>>}

InitScroll ==
  /\ slPc = "scroll"
  /\ slCtx = "live"
  /\ slCount = 0
  /\ slSeen = {}
  /\ slBody = <<>>
  /\ slSent = <<>>
  /\ slErr = "none"
  /\ slHist = <<>>

SlReturn(err) ==
  /\ slPc' = "done"
  /\ slErr' = err

\* the parent context is cancelled
SlCancel ==
  /\ slCtx = "live"
  /\ slPc # "done"
  /\ slCtx' = "cancelled"
  /\ UNCHANGED <<slPc, slCount, slSeen, slBody, slSent, slErr, slHist>>
  /\ UNCHANGED <<cbVars, rlVars, pumpVars, mgrVars, pipeVars, svVars, stVars,
                 hashVars, qmVars, mqVars, dlVars, s0Vars, bgVars, plVars>>

\* top of the loop: case <-ctx.Done() returns nil, default waits for the
\* rate limiter and scrolls; err is a failing chromedp.Run
SlScroll ==
  /\ slPc = "scroll"
  /\ Len(slHist) < MaxScrolls
  /\ IF slCtx = "cancelled"
       THEN SlReturn("nil")
       ELSE \E err \in BOOLEAN :
              IF err THEN SlReturn(ErrDriver)
                     ELSE slPc' = "wait" /\ UNCHANGED slErr
  /\ UNCHANGED <<slCtx, slCount, slSeen, slBody, slSent, slHist>>
  /\ UNCHANGED <<cbVars, rlVars, pumpVars, mgrVars, pipeVars, svVars, stVars,
                 hashVars, qmVars, mqVars, dlVars, s0Vars, bgVars, plVars>>

\* case <-time.After(...): noNewResultsCount++
SlTimeout ==
  /\ slPc = "wait"
  /\ slCount' = slCount + 1
  /\ slHist' = Append(slHist, "timeout")
  /\ slBody' = <<>>
  /\ slPc' = "pins"
  /\ UNCHANGED <<slCtx, slSeen, slSent, slErr>>
  /\ UNCHANGED <<cbVars, rlVars, pumpVars, mgrVars, pipeVars, svVars, stVars,
                 hashVars, qmVars, mqVars, dlVars, s0Vars, bgVars, plVars>>

\* noNewResultsCount after case body := <-responseChan, before the loop
\* over the results: set to 0, then incremented for an empty results array
CountAfterBody(valid, results) ==
  IF valid /\ Len(results) = 0 THEN 0 + 1 ELSE 0

\* case body := <-responseChan; valid is json.Unmarshal succeeding
SlResponse(valid, results) ==
  /\ slPc = "wait"
  /\ slCount' = CountAfterBody(valid, results)
  /\ slHist' = Append(slHist, IF ~valid THEN "bad"
                              ELSE IF Len(results) = 0 THEN "empty"
                              ELSE "data")
  /\ slBody' = IF valid THEN results ELSE <<>>
  /\ slPc' = "pins"
  /\ UNCHANGED <<slCtx, slSeen, slSent, slErr>>
  /\ UNCHANGED <<cbVars, rlVars, pumpVars, mgrVars, pipeVars, svVars, stVars,
                 hashVars, qmVars, mqVars, dlVars, s0Vars, bgVars, plVars>>

\* !seenIDs[pin.ID] && pin.Images.Orig.URL != ""
Fresh_IgnoreSeen(pin) == pin.url # ""
Fresh(pin) == pin.id \notin slSeen /\ pin.url # ""

\* one round of the loop over the results: a fresh pin is remembered and
\* sent, or the cancellation wins the select and the scrape returns nil
SlPin ==
  /\ slPc = "pins"
  /\ slBody # <<>>
  /\ LET pin == Head(slBody) IN
       IF Fresh(pin)
         THEN /\ slSeen' = slSeen \cup {pin.id}
              /\ \/ /\ slSent' = Append(slSent, [id |-> pin.id, url |-> pin.url])
                    /\ slBody' = Tail(slBody)
                    /\ UNCHANGED <<slPc, slErr>>
                 \/ /\ slCtx = "cancelled"
                    /\ SlReturn("nil")
                    /\ UNCHANGED <<slSent, slBody>>
         ELSE /\ slBody' = Tail(slBody)
              /\ UNCHANGED <<slSeen, slSent, slPc, slErr>>
  /\ UNCHANGED <<slCtx, slCount, slHist>>
  /\ UNCHANGED <<cbVars, rlVars, pumpVars, mgrVars, pipeVars, svVars, stVars,
                 hashVars, qmVars, mqVars, dlVars, s0Vars, bgVars, plVars>>

\* noNewResultsCount >= maxConsecutiveTimeouts
Exhausted_Late(count) == count > MaxConsecutiveTimeouts
Exhausted(count) == count >= MaxConsecutiveTimeouts

\* the check after the select
SlCheck ==
  /\ slPc = "pins"
  /\ slBody = <<>>
  /\ IF Exhausted(slCount)
       THEN SlReturn(ErrQueryExhausted)
       ELSE slPc' = "scroll" /\ UNCHANGED slErr
  /\ UNCHANGED <<slCtx, slCount, slSeen, slBody, slSent, slHist>>
  /\ UNCHANGED <<cbVars, rlVars, pumpVars, mgrVars, pipeVars, svVars, stVars,
                 hashVars, qmVars, mqVars, dlVars, s0Vars, bgVars, plVars>>

(***************************************************************************)
(* The goroutine started by Client.Scrape: defer close(resultChan), then   *)
(* circuitBreaker.Call around scrapeWithRetries.  The caller of Scrape     *)
(* receives from the channel for as long as it cares to.                   *)
(***************************************************************************)
InitTask ==
  /\ bgPc = "call"
  /\ bgCtx = "live"
  /\ bgChan = 0
  /\ bgCount = 0
  /\ bgBodies = 0
  /\ bgCloses = 0
  /\ bgReading = TRUE
  /\ bgLate = FALSE

\* the goroutine returns: the deferred close(resultChan) runs
BgExit ==
  /\ bgPc' = "exited"
  /\ bgCloses' = bgCloses + 1

\* circuitBreaker.Call on the breaker made by this Scrape call: an open
\* breaker returns ErrBreakerOpen, else fn runs
BgCall ==
  /\ bgPc = "call"
  /\ IF NewCircuitBreaker.state = "open"
       THEN BgExit
       ELSE /\ bgPc' = "loop"
            /\ UNCHANGED bgCloses
  /\ UNCHANGED <<bgCtx, bgChan, bgCount, bgBodies, bgReading, bgLate>>
  /\ UNCHANGED <<cbVars, rlVars, pumpVars, mgrVars, pipeVars, svVars, stVars,
                 hashVars, qmVars, mqVars, dlVars, s0Vars, slVars, plVars>>

\* top of the loop: case <-ctx.Done() returns nil; default waits for the
\* rate limiter and scrolls, and a failing chromedp.Run returns its error
BgLoop ==
  /\ bgPc = "loop"
  /\ IF bgCtx = "cancelled"
       THEN BgExit
       ELSE \E err \in BOOLEAN :
              IF err THEN BgExit
                     ELSE /\ bgPc' = "wait"
                          /\ UNCHANGED bgCloses
  /\ UNCHANGED <<bgCtx, bgChan, bgCount, bgBodies, bgReading, bgLate>>
  /\ UNCHANGED <<cbVars, rlVars, pumpVars, mgrVars, pipeVars, svVars, stVars,
                 hashVars, qmVars, mqVars, dlVars, s0Vars, slVars, plVars>>

\* if noNewResultsCount >= maxConsecutiveTimeouts { return ErrQueryExhausted }
BgCheck(count) ==
  IF count >= MaxConsecutiveTimeouts
    THEN BgExit
    ELSE /\ bgPc' = "loop"
         /\ UNCHANGED bgCloses

\* select { case body := <-responseChan: ... case <-time.After(...): }: a
\* body with a fresh pin or a body without results (while the search has
\* bodies to give), or the timeout
BgWait ==
  /\ bgPc = "wait"
  /\ \/ /\ bgBodies < MaxBodies
        /\ bgBodies' = bgBodies + 1
        /\ bgCount' = 0
        /\ bgPc' = "send"
        /\ UNCHANGED bgCloses
     \/ /\ bgBodies < MaxBodies
        /\ bgBodies' = bgBodies + 1
        /\ bgCount' = 1
        /\ BgCheck(1)
     \/ /\ bgCount' = bgCount + 1
        /\ BgCheck(bgCount + 1)
        /\ UNCHANGED bgBodies
  /\ UNCHANGED <<bgCtx, bgChan, bgReading, bgLate>>
  /\ UNCHANGED <<cbVars, rlVars, pumpVars, mgrVars, pipeVars, svVars, stVars,
                 hashVars, qmVars, mqVars, dlVars, s0Vars, slVars, plVars>>

\* the cases of the select around the send that are ready
SendReady_NoDone == IF bgChan < ResultCap THEN {"send"} ELSE {}
SendReady ==
  (IF bgChan < ResultCap THEN {"send"} ELSE {})
    \cup (IF bgCtx = "cancelled" THEN {"done"} ELSE {})

\* select { case resultChan <- ScrapeResult{...}: case <-ctx.Done(): return nil }
\* followed by the check of the counter
BgSend ==
  /\ bgPc = "send"
  /\ \E case \in SendReady :
       IF case = "send"
         THEN /\ bgChan' = bgChan + 1
              /\ bgLate' = (bgLate \/ bgCloses > 0)
              /\ BgCheck(bgCount)
         ELSE /\ BgExit
              /\ UNCHANGED <<bgChan, bgLate>>
  /\ UNCHANGED <<bgCtx, bgCount, bgBodies, bgReading>>
  /\ UNCHANGED <<cbVars, rlVars, pumpVars, mgrVars, pipeVars, svVars, stVars,
                 hashVars, qmVars, mqVars, dlVars, s0Vars, slVars, plVars>>

\* the caller of Scrape receives a pin
BgReceive ==
  /\ bgReading
  /\ bgChan > 0
  /\ bgChan' = bgChan - 1
  /\ UNCHANGED <<bgPc, bgCtx, bgCount, bgBodies, bgCloses, bgReading, bgLate>>
  /\ UNCHANGED <<cbVars, rlVars, pumpVars, mgrVars, pipeVars, svVars, stVars,
                 hashVars, qmVars, mqVars, dlVars, s0Vars, slVars, plVars>>

\* the caller of Scrape stops receiving
BgReaderStops ==
  /\ bgReading
  /\ bgReading' = FALSE
  /\ UNCHANGED <<bgPc, bgCtx, bgChan, bgCount, bgBodies, bgCloses, bgLate>>
  /\ UNCHANGED <<cbVars, rlVars, pumpVars, mgrVars, pipeVars, svVars, stVars,
                 hashVars, qmVars, mqVars, dlVars, s0Vars, slVars, plVars>>

\* the context given to Scrape is cancelled
BgCancel ==
  /\ bgCtx = "live"
  /\ bgCtx' = "cancelled"
  /\ UNCHANGED <<bgPc, bgChan, bgCount, bgBodies, bgCloses, bgReading, bgLate>>
  /\ UNCHANGED <<cbVars, rlVars, pumpVars, mgrVars, pipeVars, svVars, stVars,
                 hashVars, qmVars, mqVars, dlVars, s0Vars, slVars, plVars>>

\* the steps of the goroutine
BgStep == BgCall \/ BgLoop \/ BgWait \/ BgSend

(***************************************************************************)
(* The pool-based server: OnMessage takes the client's lock with TryLock   *)
(* and starts a goroutine that sends req.Limit unseen images of the pool.  *)
(* The pool never holds more than its maxSize, so AddImages drops nothing. *)
(***************************************************************************)
Deliveries == 1..MaxDeliveries
PoolHashes == {1, 2}
NoRequest == [client |-> "", limit |-> 0]
\* the values of req.Limit: a request for nothing and one for two images
Limits == {0, 2}

InitDelivery ==
  /\ plLock = [c \in Clients |-> FALSE]
  /\ plPc = [g \in Deliveries |-> "none"]
  /\ plReq = [g \in Deliveries |-> NoRequest]
  /\ plI = [g \in Deliveries |-> 0]
  /\ plImg = [g \in Deliveries |-> 0]
  /\ plOpen = [g \in Deliveries |-> TRUE]
  /\ plPool = {}
  /\ plSeen = [c \in Clients |-> {}]
  /\ plLast = "none"

\* mu.TryLock() succeeds
TryLock_Blind(c) == TRUE
TryLock(c) == ~plLock[c]

\* OnMessage with a scrape request of client c: the lock is taken and the
\* goroutine started, or the request is dropped as already in progress
PlRequest(c, limit) ==
  /\ IF TryLock(c)
       THEN \E g \in Deliveries :
              /\ plPc[g] = "none"
              /\ \A h \in Deliveries : h < g => plPc[h] # "none"
              /\ plLock' = [plLock EXCEPT ![c] = TRUE]
              /\ plPc' = [plPc EXCEPT ![g] = "get"]
              /\ plReq' = [plReq EXCEPT ![g] = [client |-> c, limit |-> limit]]
              /\ plLast' = "started"
       ELSE /\ plLast' = "rejected"
            /\ UNCHANGED <<plLock, plPc, plReq>>
  /\ UNCHANGED <<plI, plImg, plOpen, plPool, plSeen>>
  /\ UNCHANGED <<cbVars, rlVars, pumpVars, mgrVars, pipeVars, svVars, stVars,
                 hashVars, qmVars, mqVars, dlVars, s0Vars, slVars, bgVars>>

\* the goroutine returns: the deferred mu.Unlock() runs
PlReturn(g) ==
  /\ plPc' = [plPc EXCEPT ![g] = "done"]
  /\ plLock' = [plLock EXCEPT ![plReq[g].client] = FALSE]

\* ImagePool.GetRandomUnseenImage: the images of the pool the client has
\* not seen (the lookups in the store are taken to succeed)
Unseen(c) == plPool \ plSeen[c]

\* for i := 0; i < req.Limit; i++ { img, err := GetRandomUnseenImage(...) };
\* after the loop "scrape_complete" is written and the goroutine returns
PlGet(g) ==
  /\ plPc[g] = "get"
  /\ IF plI[g] >= plReq[g].limit
       THEN /\ PlReturn(g)
            /\ UNCHANGED plImg
       ELSE /\ \/ \E h \in Unseen(plReq[g].client) :
                    /\ plImg' = [plImg EXCEPT ![g] = h]
                    /\ plPc' = [plPc EXCEPT ![g] = "bin"]
               \/ /\ Unseen(plReq[g].client) = {}
                  /\ plPc' = [plPc EXCEPT ![g] = "sleep"]
                  /\ UNCHANGED plImg
            /\ UNCHANGED plLock
  /\ UNCHANGED <<plReq, plI, plOpen, plPool, plSeen, plLast>>
  /\ UNCHANGED <<cbVars, rlVars, pumpVars, mgrVars, pipeVars, svVars, stVars,
                 hashVars, qmVars, mqVars, dlVars, s0Vars, slVars, bgVars>>

\* no image: "no_unseen_images_in_pool" is written with the result of the
\* write dropped, then time.Sleep(5 * time.Second); i--; continue
PlSleep(g) ==
  /\ plPc[g] = "sleep"
  /\ plPc' = [plPc EXCEPT ![g] = "get"]
  /\ UNCHANGED <<plLock, plReq, plI, plImg, plOpen, plPool, plSeen, plLast>>
  /\ UNCHANGED <<cbVars, rlVars, pumpVars, mgrVars, pipeVars, svVars, stVars,
                 hashVars, qmVars, mqVars, dlVars, s0Vars, slVars, bgVars>>

\* socket.WriteMessage(gws.OpcodeBinary, img.Data): an error returns; then
\* the pin text frame, its result dropped
PlWriteBinary(g) ==
  /\ plPc[g] = "bin"
  /\ IF plOpen[g]
       THEN /\ plPc' = [plPc EXCEPT ![g] = "mark"]
            /\ UNCHANGED plLock
       ELSE PlReturn(g)
  /\ UNCHANGED <<plReq, plI, plImg, plOpen, plPool, plSeen, plLast>>
  /\ UNCHANGED <<cbVars, rlVars, pumpVars, mgrVars, pipeVars, svVars, stVars,
                 hashVars, qmVars, mqVars, dlVars, s0Vars, slVars, bgVars>>

\* c.db.MarkImageAsSeen(clientName, img.Hash), an error is logged; i++
PlMarkSeen(g) ==
  /\ plPc[g] = "mark"
  /\ \E err \in BOOLEAN :
       plSeen' = IF err THEN plSeen
                 ELSE [plSeen EXCEPT ![plReq[g].client] = @ \cup {plImg[g]}]
  /\ plI' = [plI EXCEPT ![g] = plI[g] + 1]
  /\ plImg' = [plImg EXCEPT ![g] = 0]
  /\ plPc' = [plPc EXCEPT ![g] = "get"]
  /\ UNCHANGED <<plLock, plReq, plOpen, plPool, plLast>>
  /\ UNCHANGED <<cbVars, rlVars, pumpVars, mgrVars, pipeVars, svVars, stVars,
                 hashVars, qmVars, mqVars, dlVars, s0Vars, slVars, bgVars>>

\* the client of goroutine g's socket disconnects
PlDisconnect(g) ==
  /\ plPc[g] \notin {"none", "done"}
  /\ plOpen[g]
  /\ plOpen' = [plOpen EXCEPT ![g] = FALSE]
  /\ UNCHANGED <<plLock, plPc, plReq, plI, plImg, plPool, plSeen, plLast>>
  /\ UNCHANGED <<cbVars, rlVars, pumpVars, mgrVars, pipeVars, svVars, stVars,
                 hashVars, qmVars, mqVars, dlVars, s0Vars, slVars, bgVars>>

\* refreshImagePool: ImagePool.AddImages with a newly scraped image
PlAddImages(h) ==
  /\ h \notin plPool
  /\ plPool' = plPool \cup {h}
  /\ UNCHANGED <<plLock, plPc, plReq, plI, plImg, plOpen, plSeen, plLast>>
  /\ UNCHANGED <<cbVars, rlVars, pumpVars, mgrVars, pipeVars, svVars, stVars,
                 hashVars, qmVars, mqVars, dlVars, s0Vars, slVars, bgVars>>

\* the steps of delivery goroutine g
PlStep(g) == PlGet(g) \/ PlSleep(g) \/ PlWriteBinary(g) \/ PlMarkSeen(g)

Init == InitBreaker /\ InitLimiter /\ InitPump /\ InitManager /\ InitPipeline
        /\ InitSync /\ InitStore /\ InitHash /\ InitQm /\ InitMq /\ InitDl /\ InitScrape0 /\ InitScroll /\ InitTask /\ InitDelivery

NextBreaker ==
  \/ \E g \in Scrapers : CallEnter(g)
  \/ \E g \in Scrapers : CallReturn(g)
  \/ CbTick

NextLimiter ==
  \/ \E g \in Waiters : WaitLock(g)
  \/ \E g \in Waiters : WaitMeasure(g)
  \/ \E g \in Waiters : WaitSleep(g)
  \/ \E g \in Waiters : WaitWake(g)
  \/ \E g \in Waiters : WaitReturn(g)
  \/ RlTick

NextPump ==
  \/ \E s \in Sockets : Connect(s)
  \/ \E s \in Sockets : OnClose(s)
  \/ \E s \in Sockets, frame \in Frames : OnMessage(s, frame)
  \/ \E c \in Clients, img \in Images : JobSend(c, img)
  \/ \E c \in Clients : JobFinish(c)
  \/ \E p \in Pumps : PumpReceive(p)
  \/ \E p \in Pumps : PumpExit(p)
  \/ \E p \in Pumps : PumpHasSeen(p)
  \/ \E p \in Pumps : PumpWriteBinary(p)
  \/ \E p \in Pumps : PumpWriteText(p)
  \/ \E p \in Pumps : PumpMarkSeen(p)

NextManager ==
  \/ \E c \in MClients, qs \in QueryLists : Subscribe(c, qs)
  \/ \E c \in MClients, q \in Queries : Unsubscribe(c, q)
  \/ \E k \in ChanIds : SubscriberReceive(k)
  \/ \E j \in JobIds : DriverReceive(j)
  \/ \E j \in JobIds : DriverCancelled(j)
  \/ \E j \in JobIds : DriverFanOut(j)
  \/ \E j \in JobIds : DriverFails(j)

NextPipeline ==
  \/ \E j \in ScrapeJobs : StartJob(j)
  \/ \E j \in ScrapeJobs : CancelJob(j)
  \/ \E j \in ScrapeJobs : TaskStep(j)
  \/ \E j \in ScrapeJobs, w \in WorkerIds : WorkerStep(j, w)
  \/ \E j \in ScrapeJobs : CloseScraped(j)
  \/ \E j \in ScrapeJobs : DriverLoop(j)

\* every goroutine that can take a step eventually takes one; when a job
\* is started or cancelled, and which way a select or a scrape goes, is
\* left open
FairPipeline ==
  \A j \in ScrapeJobs :
    /\ WF_vars(TaskStep(j))
    /\ \A w \in WorkerIds : WF_vars(WorkerStep(j, w))
    /\ WF_vars(CloseScraped(j))
    /\ WF_vars(DriverLoop(j))

NextSync ==
  \/ \E limit \in 0..MaxLimit : SvRequest(limit)
  \/ \E img \in SvImages : SvReceive(img)
  \/ SvStreamEnds
  \/ SvHasSeen
  \/ SvWriteBinary
  \/ SvWriteText
  \/ SvMarkSeen
  \/ SvMarkPin
  \/ SvSockCloses

NextStore ==
  \/ \E c \in Clients, h \in Hashes : DbHasSeen(c, h)
  \/ \E c \in Clients, h \in Hashes : DbMarkSeen(c, h)
  \/ \E c \in Clients : DbClear(c)

NextHash ==
  \/ \E gray \in GrayImages : HashDecode(gray)
  \/ HashCompute
  \/ HashNext

NextQm ==
  \/ \E queries \in QmLists : QmNew(queries)
  \/ \E g \in QmCallers : QmCall(g)
  \/ \E g \in QmCallers : QmRead(g)
  \/ \E g \in QmCallers : QmReturn(g)

NextMq ==
  \/ \E g \in MqCallers : MqCall(g)
  \/ \E g \in MqCallers : MqLock(g)
  \/ \E g \in MqCallers, base \in BaseQueries, modifier \in Modifiers :
       MqDraw(g, base, modifier)
  \/ MqTick

NextDl ==
  \/ \E w \in DlWorkers, img \in DlPins : DlReceive(w, img)
  \/ \E w \in DlWorkers : DlExistsId(w)
  \/ \E w \in DlWorkers : DlDownload(w)
  \/ \E w \in DlWorkers : DlExistsHash(w)
  \/ \E w \in DlWorkers : DlSave(w)
  \/ \E w \in DlWorkers : DlAddId(w)
  \/ \E w \in DlWorkers : DlAddHash(w)

NextScrape0 ==
  \/ S0Scrape
  \/ S0Call
  \/ \E err \in FnOutcomes : S0FnReturns(err)

\* the scrape manager's jobs behind the Client's one breaker, which the
\* scrapes of the Client open and close
NextChain ==
  \/ NextBreaker
  \/ \E c \in MClients, qs \in QueryLists : Subscribe(c, qs)
  \/ \E j \in JobIds : ScrapeRejected(j)

NextScroll ==
  \/ SlCancel
  \/ SlScroll
  \/ SlTimeout
  \/ \E valid \in BOOLEAN, results \in Bodies : SlResponse(valid, results)
  \/ SlPin
  \/ SlCheck

NextTask == BgStep \/ BgReceive \/ BgReaderStops \/ BgCancel

\* the pipeline of the first job on its own: one Scrape call with its
\* worker pool
PoolJob == CHOOSE j \in ScrapeJobs : \A k \in ScrapeJobs : j <= k
NextPool ==
  \/ StartJob(PoolJob)
  \/ CancelJob(PoolJob)
  \/ TaskStep(PoolJob)
  \/ \E w \in WorkerIds : WorkerStep(PoolJob, w)
  \/ CloseScraped(PoolJob)
  \/ DriverLoop(PoolJob)

NextDelivery ==
  \/ \E c \in Clients, limit \in Limits : PlRequest(c, limit)
  \/ \E g \in Deliveries : PlStep(g)
  \/ \E g \in Deliveries : PlDisconnect(g)
  \/ \E h \in PoolHashes : PlAddImages(h)

SpecHash == Init /\ [][NextHash]_vars
SpecQm == Init /\ [][NextQm]_vars
SpecBreaker == Init /\ [][NextBreaker]_vars
SpecLimiter == Init /\ [][NextLimiter]_vars
SpecPump == Init /\ [][NextPump]_vars
SpecManager == Init /\ [][NextManager]_vars
SpecStore == Init /\ [][NextStore]_vars
SpecSync == Init /\ [][NextSync]_vars
SpecPipeline == Init /\ [][NextPipeline]_vars /\ FairPipeline
SpecMq == Init /\ [][NextMq]_vars
SpecDl == Init /\ [][NextDl]_vars
SpecScrape0 == Init /\ [][NextScrape0]_vars
SpecChain == Init /\ [][NextChain]_vars
SpecScroll == Init /\ [][NextScroll]_vars
\* the goroutine and the receiving caller are scheduled again and again
SpecTask == Init /\ [][NextTask]_vars /\ WF_vars(BgStep) /\ WF_vars(BgReceive)
SpecPool == Init /\ [][NextPool]_vars /\ FairPipeline
\* a delivery goroutine that can take a step eventually takes one; the
\* requests, the disconnects and the refreshes of the pool come as they may
SpecDelivery == Init /\ [][NextDelivery]_vars /\ \A g \in Deliveries : WF_vars(PlStep(g))

Next == NextBreaker \/ NextLimiter \/ NextPump \/ NextManager \/ NextPipeline
          \/ NextSync \/ NextStore \/ NextHash \/ NextQm \/ NextMq \/ NextDl \/ NextScrape0 \/ NextScroll \/ NextTask \/ NextDelivery
Spec == Init /\ [][Next]_vars

(***************************************************************************)
(* Claims about the circuit breaker, checked under SpecBreaker             *)
(***************************************************************************)
\* a step in which goroutine g's fn returns and Call finishes
FnReturns(g) == cbPc[g] = "infn" /\ cbPc'[g] = "idle"
\* a step in which Call is entered
CallStarts == cbCalls' = cbCalls + 1
\* a step in which Call returns the breaker-open error without running fn
Rejects ==
  /\ cbFnCount' = cbFnCount
  /\ cbPc' = cbPc
  /\ cbMu' = cbMu
  /\ \E g \in Scrapers : cbResult' = [cbResult EXCEPT ![g] = ErrBreakerOpen]

\* C3: starting from CLOSED the breaker opens exactly when maxFailures calls
\* have failed in a row (a success resets the count to 0); an open breaker
\* has seen at least maxFailures failures in a row; and a call made while it
\* is OPEN with now - lastFailureTime <= timeout returns the breaker-open
\* error without invoking fn and without changing state, failures or
\* lastFailureTime.
C3_TripsAfterMaxFailures ==
  /\ [](cbState = "open" => cbRun >= MaxFailures)
  /\ [][\A g \in Scrapers :
          (FnReturns(g) /\ cbState = "closed")
            => /\ (cbState' = "open") <=> (cbRun' >= MaxFailures)
               /\ (cbResult'[g] = "nil") => (cbFailures' = 0)]_vars
  /\ [][(CallStarts /\ cbState = "open" /\ cbNow - cbLastFailTime <= Timeout)
          => (Rejects /\ UNCHANGED <<cbState, cbFailures, cbLastFailTime>>)]_vars

\* C3 witness: three failures in a row opened the breaker and the next call
\* was rejected
C3_Witness ==
  /\ cbState = "open"
  /\ cbRun = MaxFailures
  /\ cbFnCount = MaxFailures
  /\ cbLastOp.err = ErrBreakerOpen

\* C4: when the probe call of a HALF_OPEN breaker fails, the breaker is OPEN
\* when that call returns.
C4_FailedProbeReopens ==
  [][\A g \in Scrapers :
       (FnReturns(g) /\ cbProbe /\ cbResult'[g] # "nil") => cbState' = "open"]_vars

\* C5: a call on an OPEN breaker invokes fn if and only if
\* now - lastFailureTime > timeout; if that probe succeeds the breaker is
\* CLOSED with failures = 0 when the call returns, and calls on a CLOSED
\* breaker pass through to fn.
C5_ProbeAfterTimeout ==
  /\ [][(CallStarts /\ cbState = "open")
          => ((cbFnCount' = cbFnCount + 1) <=> (cbNow - cbLastFailTime > Timeout))]_vars
  /\ [][\A g \in Scrapers :
          (FnReturns(g) /\ cbProbe /\ cbResult'[g] = "nil")
            => (cbState' = "closed" /\ cbFailures' = 0)]_vars
  /\ [][(CallStarts /\ cbState = "closed") => cbFnCount' = cbFnCount + 1]_vars

\* C5 witness: a probe has succeeded and closed the breaker
C5_Witness ==
  /\ cbLastOp = [probe |-> TRUE, err |-> "nil"]
  /\ cbState = "closed"
  /\ cbFailures = 0

\* C6: a scrape that ends with ErrQueryExhausted does not increase the
\* breaker's failure count and never opens the breaker.
C6_ExhaustionIsNoFailure ==
  [][\A g \in Scrapers :
       (FnReturns(g) /\ cbResult'[g] = ErrQueryExhausted)
         => (cbFailures' <= cbFailures /\ cbState' # "open")]_vars

(***************************************************************************)
(* Claims about the rate limiter, checked under SpecLimiter                *)
(***************************************************************************)
\* C7: any two successive returns of wait on one limiter are at least
\* minDelay apart, also when several goroutines call wait concurrently.
C7_ReturnsMinDelayApart ==
  \A i \in 1..(Len(rlReturns) - 1) : rlReturns[i + 1] - rlReturns[i] >= MinDelay

\* C7 witness: a second goroutine entered wait while the first return was
\* recent, slept, and returned exactly minDelay after it
C7_Witness ==
  /\ Len(rlReturns) >= 2
  /\ rlReturns[2] - rlReturns[1] = MinDelay
  /\ \E g \in Waiters : rlWake[g] > 0

(***************************************************************************)
(* Claims about the session pump, checked under SpecPump                   *)
(***************************************************************************)
\* a step in which pump p writes a frame to its socket
WritesBinary(p) == pPc[p] = "bin" /\ pPc'[p] = "text"
WritesText(p) == pPc[p] = "text" /\ pPc'[p] = "mark" /\ CanWrite(pSock[p])

\* C1: among the images delivered to a client (binary frame written) no two
\* have the same fingerprint, also when two pumps serve the same client and
\* interleave their HasSeen, frame-write and MarkSeen steps.  Stated for
\* runs without store errors, over the deliveries since the client's
\* history was last cleared.
C1_NoDuplicateDelivery ==
  [][\A p \in Pumps :
       (WritesBinary(p) /\ ~storeFailed)
         => pImg[p].hash \notin delivered[PumpClient(p)]]_vars

\* C8: MarkSeen for an image is never committed before both of its frames,
\* the binary frame and the text frame pin:<id>, have been written.
C8_MarkSeenAfterBothFrames ==
  \A p \in Pumps : pHist[p].mark => (pHist[p].bin /\ pHist[p].text)

\* C9: on one socket the frame written right after a binary image frame is
\* the text frame pin:<id> of the same image, also when two pumps write to
\* the socket.
C9_TextFollowsBinary ==
  [][\A p \in Pumps :
       ((WritesBinary(p) \/ WritesText(p)) /\ lastFrame[pSock[p]].type = "binary")
         => (WritesText(p) /\ lastFrame[pSock[p]].img = pImg[p])]_vars

(***************************************************************************)
(* Claims about the scrape manager, checked under SpecManager              *)
(***************************************************************************)
\* the queries of the list given when channel k was handed out
AllQueries(k) == {chQueries[k][i] : i \in 1..Len(chQueries[k])}
\* queries of channel k's list for which no job has been started yet
UnusedRemain(k) == chStarted[k] # AllQueries(k)
\* a step that closes channel k
Closes(k) == ~mChClosed[k] /\ mChClosed'[k]
\* a step in which channel k is taken out of the Subscribers map holding it
Unsubscribed(k) == \A c \in MClients : subMaps'[k][c] # k
\* a step in which the driver of job j returns after its scrape ended
ScrapeEnds(j) == drvPc[j] = "loop" /\ drvPc'[j] = "done" /\ ~jobs[j].cancelled
\* a step in which a job holding Subscribers map m is started
StartsJobFor(m) ==
  \E n \in JobIds : drvPc[n] = "none" /\ drvPc'[n] = "loop" /\ jobs'[n].subs = m

\* C2: a subscriber channel is closed only when its client is unsubscribed
\* or when every query of its list has been used, and when the scrape of a
\* job ends while unused queries remain, the next query's job is started
\* with the same subscriber channels, which stay open.
C2_ChainingKeepsChannelsOpen ==
  /\ [][\A k \in ChanIds :
          Closes(k) => (Unsubscribed(k) \/ ~UnusedRemain(k))]_vars
  /\ [][\A j \in JobIds : \A k \in ChanIds :
          (/\ ScrapeEnds(j)
           /\ k \in SubChans(jobs[j].subs)
           /\ ~mChClosed[k]
           /\ UnusedRemain(k))
            => (~mChClosed'[k] /\ StartsJobFor(jobs[j].subs))]_vars

\* a step in which driver j completes the fan-out of one image
FansOut(j) == drvPc[j] = "fan" /\ drvPc'[j] = "loop"
\* the channels driver j fans out to
FanTargets(j) == SubChans(jobs[mJobs[jobs[j].query]].subs)

\* C10: in a fan-out, a subscriber whose buffer is full has the image
\* dropped (its buffer is left as it was), every subscriber whose buffer
\* has free space gets the image appended, and the driver goes back to its
\* loop; a driver holding an image can always take the fan-out step,
\* whatever the fill of the subscriber channels.
C10_DropOnFull ==
  /\ [][\A j \in JobIds :
          FansOut(j) =>
            \A k \in FanTargets(j) :
              IF Len(mChBuf[k]) < SubChanCap
                THEN mChBuf'[k] = Append(mChBuf[k], jobs[j].query)
                ELSE mChBuf'[k] = mChBuf[k]]_vars
  /\ [](\A j \in JobIds :
          (drvPc[j] = "fan" /\ ~mPanic) => ENABLED DriverFanOut(j))

\* C10 witness: a fan-out has found a subscriber's buffer full, dropped the
\* image for it and left the driver running
C10_Witness ==
  /\ mLastFan.dropped # {}
  /\ ~mPanic
  /\ \E k \in mLastFan.dropped : Len(mChBuf[k]) = SubChanCap

\* the registered jobs whose Subscribers map holds clientName
JobsServing(clientName) ==
  {q \in Queries : mJobs[q] # 0 /\ subMaps[jobs[mJobs[q]].subs][clientName] # 0}

\* C11: the manager's registry never holds more than one job serving the
\* same clientName.
C11_OneJobPerClient ==
  \A c \in MClients : Cardinality(JobsServing(c)) <= 1

\* a step in which job j is stopped: Unsubscribe has taken its last
\* subscriber away and called job.cancel()
Stops(j) == ~jobs[j].cancelled /\ jobs'[j].cancelled

\* C12: when the stop of a job returns, the job's context is cancelled, the
\* job is no longer in the registry and its driver goroutine has terminated.
C12_StopAwaitsDriver ==
  [][\A j \in JobIds :
       Stops(j) => (/\ jobs'[j].cancelled
                    /\ \A q \in Queries : mJobs'[q] # j
                    /\ drvPc'[j] = "done")]_vars

(***************************************************************************)
(* Claims about the scrape pipeline, checked under SpecPipeline            *)
(***************************************************************************)
\* every goroutine of job j has returned
AllTasksDone(j) ==
  /\ scTask[j] = "closed"
  /\ \A w \in WorkerIds : scWorker[j][w] = "done"
  /\ scrapedClosed[j]
  /\ scDriver[j] = "done"

\* C13: after a job's context is cancelled every task of the job
\* eventually terminates: the driver, the scrape task and every worker.
C13_StoppedJobTerminates ==
  \A j \in ScrapeJobs : Cancelled(j) ~> AllTasksDone(j)

(***************************************************************************)
(* Further claims about the session pump, checked under SpecPump           *)
(***************************************************************************)
\* a step in which pump p leaves its loop because its channel was closed
\* by its job (limit reached or queries exhausted) while the job is still
\* the client's registered one and the socket is open
StreamEndsNaturally(p) ==
  /\ pPc[p] = "recv"
  /\ pPc'[p] = "done"
  /\ jobOf[PumpClient(p)] = p
  /\ CanWrite(pSock[p])

\* C14: when a client's stream ends naturally the server writes the text
\* frame scrape_complete to the client's socket.
C14_CompleteAfterNaturalEnd ==
  [][\A p \in Pumps :
       StreamEndsNaturally(p) => lastFrame'[pSock[p]].type = "scrape_complete"]_vars

(***************************************************************************)
(* Claims about the synchronous handler, checked under SpecSync            *)
(***************************************************************************)
\* a step in which the handler skips an image the client has already seen
SkipsSeen == svSkipped' = svSkipped + 1

\* C15: in answer to a request with limit N the handler writes at most N
\* binary frames, and skipping an already seen image does not use up any
\* of the N: count stays as it was.
C15_AtMostLimitFrames ==
  /\ [](svFrames <= svLimit)
  /\ [][SkipsSeen => (svCount' = svCount /\ svFrames' = svFrames)]_vars

\* C15 witness: N > 0 frames have been written although an image was
\* skipped on the way
C15_Witness ==
  /\ svLimit > 0
  /\ svFrames = svLimit
  /\ svSkipped > 0
  /\ svCount = svLimit

(***************************************************************************)
(* Claims about the history store, checked under SpecStore                 *)
(***************************************************************************)
\* a step in which a HasClientSeenImage call returns
HasSeenReturns == stLast'.n # stLast.n
\* the pairs of stMarked that belong to clientName
MarkedOf(marked, clientName) == {e \in marked : e[1] = clientName}

\* C16: a HasSeen(c, h) that returns without error returns true exactly
\* when a MarkSeen(c, h) has committed and was not cleared since (so false
\* for a client nothing was stored for, and true after every successful
\* MarkSeen, however the calls interleave), and what HasSeen answers for a
\* client changes only through calls made for that client.
C16_HasSeenIffMarked ==
  /\ [][(HasSeenReturns /\ ~stLast'.err)
          => (stLast'.seen <=> <<stLast'.client, stLast'.hash>> \in stMarked)]_vars
  /\ [][\A c \in Clients : \A h \in Hashes :
          (HasClientSeenImage(c, h)' # HasClientSeenImage(c, h))
            => MarkedOf(stMarked', c) # MarkedOf(stMarked, c)]_vars

\* C16 witness: HasSeen has answered true for a client and a fingerprint
\* while the other client, for whom the other fingerprint is marked, has
\* not seen that one
C16_Witness ==
  /\ stLast.seen
  /\ ~stLast.err
  /\ \E c \in Clients \ {stLast.client} : \E h \in Hashes \ {stLast.hash} :
       /\ <<c, h>> \in stMarked
       /\ <<c, stLast.hash>> \notin stMarked
       /\ ~HasClientSeenImage(c, stLast.hash)

(***************************************************************************)
(* Claims about store errors and the clear command, checked under SpecPump *)
(***************************************************************************)
\* a step in which a store call of pump p, at position pc, returns the
\* first store error of the run
StoreCallFails(p, pc) ==
  pPc[p] = pc /\ pPc'[p] # pc /\ ~storeFailed /\ storeFailed'

\* C17: when HasSeen fails with a store error the pump treats the image as
\* not seen and goes on to write its binary frame, and when MarkSeen fails
\* the pump goes on with the next image.
C17_StoreErrorsKeepDelivery ==
  /\ [][\A p \in Pumps : StoreCallFails(p, "hasseen") => pPc'[p] = "bin"]_vars
  /\ [][\A p \in Pumps : StoreCallFails(p, "mark") => pPc'[p] = "recv"]_vars

\* a step in which OnMessage handles a clear frame of the client of socket
\* s, in a run without store errors
HandlesClear(s, frame) ==
  /\ frame.valid
  /\ frame.command = "clear"
  /\ OnMessage(s, frame)
  /\ ~storeFailed'

\* C18: a clear frame makes HasSeen false for every fingerprint of its
\* client, leaves the history of every other client as it was, and neither
\* starts nor stops a job, with or without queries in the frame.
C18_ClearDropsOnlyHistory ==
  [][\A s \in Sockets : \A frame \in Frames :
       HandlesClear(s, frame) =>
         /\ \A h \in Hashes : ~HasClientSeenImage(ServerName(s), h)'
         /\ \A c \in Clients \ {ServerName(s)} : \A h \in Hashes :
              HasClientSeenImage(c, h)' = HasClientSeenImage(c, h)
         /\ UNCHANGED <<jobOf, chClosed, ch, pPc, pSock>>]_vars

\* C18 witness: a client whose history held a fingerprint has none after
\* its clear, while its job is still registered and running and the other
\* client's history is still there
C18_Witness ==
  \E c \in Clients :
    /\ delivered[c] = {}
    /\ \A h \in Hashes : ~HasClientSeenImage(c, h)
    /\ ~storeFailed
    /\ jobOf[c] # 0
    /\ ~chClosed[jobOf[c]]
    /\ pHist[jobOf[c]].mark
    /\ \E c2 \in Clients \ {c} : \E h \in Hashes : HasClientSeenImage(c2, h)

(***************************************************************************)
(* Claims about imaging.DHash, checked under SpecHash                      *)
(***************************************************************************)
\* comparison (r, c) of the grayscale image
Brighter(gray, r, c) == GrayAt(gray, c, r) > GrayAt(gray, c + 1, r)

\* gray with pixel (0, 0) changed so that comparison (0, 0) turns over and
\* every other comparison stays
FlipFirst(gray) ==
  [gray EXCEPT ![0][0] = IF Brighter(gray, 0, 0)
                           THEN GrayAt(gray, 1, 0)
                           ELSE GrayAt(gray, 1, 0) + 1]

\* C19: DHash packs the 64 comparisons gray[r,c] > gray[r,c+1] MSB-first,
\* comparison (r, c) being bit 63 - (8r + c): an image brighter to the left
\* everywhere hashes to all ones, a constant one to 0, and two images that
\* differ in comparison (0, 0) only have different hashes.
C19_DHashBits ==
  hPc = "hashed" =>
    /\ \A r \in 0..(HashHeight - 1) : \A c \in 0..(HashWidth - 2) :
         (hHash[63 - (8 * r + c)] = 1) <=> Brighter(hImg, r, c)
    /\ (\A r \in 0..(HashHeight - 1) : \A c \in 0..(HashWidth - 2) :
          Brighter(hImg, r, c)) => hHash = AllOnes64
    /\ hImg = BaseImage("flat") => hHash = Zero64
    /\ GrayAt(hImg, 1, 0) < MaxGray => DHash(FlipFirst(hImg)) # hHash

(***************************************************************************)
(* Claims about query.QueryManager, checked under SpecQm                   *)
(***************************************************************************)
\* C20: over a list of n distinct queries the k-th GetNextQuery call
\* returns the k-th query with ok = true for k <= n and ok = false after
\* that, and no query is returned twice, whichever goroutines call.
C20_QueriesInOrderOnce ==
  /\ \A k \in 1..Len(qmLog) :
       IF k <= Len(qmgr.queries)
         THEN qmLog[k].ok /\ qmLog[k].query = qmgr.queries[k]
         ELSE ~qmLog[k].ok
  /\ \A a, b \in 1..Len(qmLog) :
       (a # b /\ qmLog[a].ok /\ qmLog[b].ok) => qmLog[a].query # qmLog[b].query

\* C20 witness: two goroutines have used up a list of three queries between
\* them and a fourth call has returned ok = false
C20_Witness ==
  /\ Len(qmgr.queries) = 3
  /\ Len(qmLog) = 4
  /\ {qmLog[k].g : k \in 1..3} = QmCallers
  /\ ~qmLog[4].ok

(***************************************************************************)
(* Claims about the modifier-based query manager, checked under SpecMq     *)
(***************************************************************************)
\* goroutine g waits in qm.mu.Lock() for a mutex that g itself holds: its
\* GetNextQuery call can never return
BlockedOnItself(g) == mqPc[g] = "lock" /\ mqMu = g

\* C21: GetNextQuery of the modifier-based query manager always returns:
\* it draws again at most 10 times in all and never blocks, also when every
\* combination was emitted within the last hour.
C21_GetNextQueryReturns ==
  \A g \in MqCallers : ~BlockedOnItself(g) /\ mqDepth[g] < 10

(***************************************************************************)
(* Claims about the downloader, checked under SpecDl                       *)
(***************************************************************************)
\* C22: the downloader never saves two images with the same perceptual
\* hash, also when two workers process pins of the same hash at the same
\* time.
C22_NoTwoSavesOfOneHash ==
  \A a, b \in 1..Len(dlSaved) : a # b => dlSaved[a].hash # dlSaved[b].hash

\* C23: in the scrape manager no subscriber channel is closed twice and no
\* image is sent on a closed subscriber channel, after any interleaving of
\* Subscribe, Unsubscribe, fan-out and query exhaustion.
C23_NoCloseOrSendOnClosed ==
  [][~(/\ ~mPanic
       /\ mPanic'
       /\ \/ \E c \in MClients, q \in Queries : Unsubscribe(c, q)
          \/ \E j \in JobIds : DriverFanOut(j)
          \/ \E j \in JobIds : DriverFails(j))]_vars

\* the driver goroutine of job j is running and its context is not cancelled
DriverRuns(j) == drvPc[j] \in {"loop", "fan"} /\ ~jobs[j].cancelled

\* C24: a Subscribe for a client or query that already has a running job
\* stops the earlier job before the new one is registered: no job driver
\* keeps running whose job can no longer be reached, and so cancelled,
\* through the registry.
C24_NoOrphanDriver ==
  \A j \in JobIds : DriverRuns(j) => \E q \in Queries : mJobs[q] = j

(***************************************************************************)
(* Claims about Client.Scrape of part_000, checked under SpecScrape0       *)
(***************************************************************************)
\* C25: after three consecutive Client.Scrape calls that failed with a
\* driver error, a fourth call made within the breaker timeout does not
\* drive the browser: the failure count persists from call to call.
C25_FourthScrapeRejected ==
  \A k \in 4..Len(s0Log) :
    (\A i \in (k - 3)..(k - 1) : s0Log[i] = ErrDriver) => s0Log[k] = ErrBreakerOpen

(***************************************************************************)
(* Claims about the job driver behind the breaker, checked under SpecChain *)
(***************************************************************************)
\* C26: while the circuit breaker is open no query is taken from a job's
\* query manager and used up without being scraped: a scrape the open
\* breaker rejects neither advances the query manager nor closes the
\* subscribers' channels.
C26_OpenBreakerKeepsQueries ==
  [][\A j \in JobIds :
       ScrapeRejected(j) => (mQms' = mQms /\ mChClosed' = mChClosed)]_vars

\* job j's scrape task waits in cb.mu.Lock() while the scrape of another
\* job holds the mutex
WaitsForOtherJob(j) == scTask[j] = "lock" /\ scMu \in ScrapeJobs \ {j}

\* C27: each job's scrapes go through a breaker no other job uses: with two
\* jobs running at the same time, neither job's Client.Scrape waits for the
\* other job's scrape loop to end before it drives the browser.
C27_BreakerPerJob ==
  \A j \in ScrapeJobs : ~WaitsForOtherJob(j)

(***************************************************************************)
(* Claims about the scroll-and-harvest loop, checked under SpecScroll      *)
(***************************************************************************)
\* the number of entries at the end of hist that are all in kinds
RECURSIVE Trailing(_, _)
Trailing(hist, kinds) ==
  IF hist = <<>> \/ hist[Len(hist)] \notin kinds
    THEN 0
    ELSE 1 + Trailing(SubSeq(hist, 1, Len(hist) - 1), kinds)

\* the check after the select has been made for the last entry of slHist
Checked == slPc \in {"scroll", "wait", "done"} /\ slHist # <<>>

\* C28: an empty results array counts like a timeout: it increments the
\* counter from the value it had before, so maxConsecutiveTimeouts
\* timeouts and empty responses in a row, in any mix, end the scrape with
\* ErrQueryExhausted.
C28_EmptyCountsLikeTimeout ==
  (Checked /\ Trailing(slHist, {"timeout", "empty"}) >= MaxConsecutiveTimeouts)
    => slErr = ErrQueryExhausted

\* C29: the loop ends with ErrQueryExhausted when, and only when, the
\* counter reaches maxConsecutiveTimeouts: that many timeouts in a row end
\* the scrape, a response body with at least one result resets the counter
\* to 0, and exhaustion is never reported below the threshold.
C29_ExhaustedAtThreshold ==
  /\ slErr = ErrQueryExhausted => slCount >= MaxConsecutiveTimeouts
  /\ (Checked /\ slErr # ErrQueryExhausted) => slCount < MaxConsecutiveTimeouts
  /\ (Checked /\ Trailing(slHist, {"timeout"}) >= MaxConsecutiveTimeouts)
       => slErr = ErrQueryExhausted
  /\ (slHist # <<>> /\ slHist[Len(slHist)] = "data") => slCount = 0

\* C29 witness: a response with results came in, then as many timeouts in a
\* row as the threshold, and the scrape has ended with ErrQueryExhausted
C29_Witness ==
  /\ slErr = ErrQueryExhausted
  /\ \E k \in 1..Len(slHist) : slHist[k] = "data"
  /\ Trailing(slHist, {"timeout"}) = MaxConsecutiveTimeouts

\* C30: within one scrape each pin ID is sent on the result channel at most
\* once, however many response bodies repeat it, and a pin without
\* images.orig.url is never sent.
C30_EachPinOnceWithUrl ==
  /\ \A a, b \in 1..Len(slSent) : a # b => slSent[a].id # slSent[b].id
  /\ \A a \in 1..Len(slSent) : slSent[a].url # ""

\* C30 witness: two response bodies that both carry pin "1" have been gone
\* through, one of them with pin "2" lacking its URL, and both pins were sent
C30_Witness ==
  /\ Cardinality({k \in 1..Len(slHist) : slHist[k] = "data"}) >= 2
  /\ slPc = "scroll"
  /\ {slSent[a].id : a \in 1..Len(slSent)} = {"1", "2"}

ClosesScraped(j) == ~scrapedClosed[j] /\ scrapedClosed'[j]

Registered == {mJobs[q] : q \in Queries} \ {0}

\* C33: between the critical sections of m.mu every job in m.jobs has a
\* subscriber; a step that leaves a registered job's Subscribers map empty
\* cancels the job and deletes it from m.jobs and its base query from
\* m.queryManagers
C33_RegisteredJobHasSubscriber ==
  /\ [](\A j \in Registered : SubChans(jobs[j].subs) # {})
  /\ [][\A q \in Queries :
          LET j == mJobs[q]
          IN (/\ j # 0
              /\ \A c \in MClients : subMaps'[jobs[j].subs][c] = 0)
               => /\ mJobs'[q] = 0
                  /\ jobs'[j].cancelled
                  /\ mQms'[jobs[j].base] = NoQm]_vars

\* the last subscriber of a job has unsubscribed: the job is cancelled and
\* gone from m.jobs, while another job is still registered
C33_Witness ==
  /\ Registered # {}
  /\ \E j \in JobIds \ Registered :
       /\ jobs[j].cancelled
       /\ jobs[j].subs # 0
       /\ SubChans(jobs[j].subs) = {}

\* the steps that are critical sections of m.mu: Subscribe, Unsubscribe and
\* handleJobFailure hold it from their first to their last statement, the
\* fan-out of startScrapingJob from m.mu.Lock() to m.mu.Unlock()
HoldsMu ==
  \/ \E c \in MClients, qs \in QueryLists : Subscribe(c, qs)
  \/ \E c \in MClients, q \in Queries : Unsubscribe(c, q)
  \/ \E j \in JobIds : DriverFanOut(j)
  \/ \E j \in JobIds : DriverFails(j)

\* a step that sends an image on a subscriber channel or closes one
SendsOrCloses ==
  \E k \in ChanIds :
    \/ Len(mChBuf'[k]) > Len(mChBuf[k])
    \/ ~mChClosed[k] /\ mChClosed'[k]

\* C34: no step made with m.mu held sends on, receives from or closes a
\* subscriber channel
C34_NoChannelOpUnderMu == [][~(HoldsMu /\ SendsOrCloses)]_vars

(***************************************************************************)
(* Further claims about the session pump, checked under SpecPump           *)
(***************************************************************************)
\* pump p is at the binary write and the write fails
BinaryWriteFails(p) == pPc[p] = "bin" /\ ~CanWrite(pSock[p])

\* C35: every entry a step adds to the history store is the fingerprint of
\* the image a pump is handling, under the name of the pump's client, and
\* that pump has written the image's binary frame; a pump whose binary
\* write fails is done, and a pump that is done stays done
C35_MarkOnlyAfterDelivery ==
  [][/\ \A e \in db' \ db :
          \E p \in Pumps :
            /\ pPc[p] = "mark"
            /\ pHist[p].bin
            /\ e = <<PumpClient(p), HashKey(pImg[p].hash)>>
     /\ \A p \in Pumps :
          /\ BinaryWriteFails(p) /\ pPc'[p] # pPc[p] => pPc'[p] = "done"
          /\ pPc[p] = "done" => pPc'[p] = "done"]_vars

\* a pump has delivered and marked one image and ended on the failing
\* binary write of a later one, whose fingerprint is not in the history
C35_Witness ==
  \E p \in Pumps :
    /\ pPc[p] = "done"
    /\ sockState[pSock[p]] = "closed"
    /\ ch[p] = <<>>
    /\ sentTotal = MaxImages
    /\ Cardinality({e \in db : e[1] = PumpClient(p)}) = 1
    /\ Cardinality(delivered[PumpClient(p)]) = 1

(***************************************************************************)
(* Further claims about the synchronous handler, checked under SpecSync    *)
(***************************************************************************)
\* strconv.ParseUint(img.ID, 10, 64) returns no error
ParsesAsUint(str) == str \in {"1", "2"}

\* C36: marking the pin ID of an image whose ID is not an unsigned decimal
\* number adds no key to the client's history
C36_UnparsablePinAddsNoKey ==
  [][(svPc = "markpin" /\ ~ParsesAsUint(svImg.id)) => svSeen' = svSeen]_vars

\* C37: Subscribe with an empty query list does not panic and leaves
\* m.jobs, m.queryManagers and the drivers as they are
C37_EmptyQueriesRejected ==
  [][\A c \in MClients :
       Subscribe(c, <<>>) =>
         /\ ~mPanic'
         /\ UNCHANGED <<mJobs, mQms, jobs, nJobs, drvPc>>]_vars

(***************************************************************************)
(* A further claim about the circuit breaker, checked under SpecBreaker    *)
(***************************************************************************)
\* C38: with cb.mu free, the breaker is open exactly when cb.failures has
\* reached maxFailures, and cb.failures lies in 0..maxFailures
C38_OpenIffFailuresAtMax ==
  cbMu = 0 =>
    /\ (cbState = "open") <=> (cbFailures >= MaxFailures)
    /\ cbFailures \in 0..MaxFailures

\* between two calls after a failed probe: the breaker is half-open with
\* a failure counted, below maxFailures
C38_Witness ==
  /\ cbMu = 0
  /\ cbState = "half-open"
  /\ cbFailures > 0
  /\ cbLastOp.probe

(***************************************************************************)
(* Claims about the pool-based server, checked under SpecDelivery          *)
(***************************************************************************)
\* the delivery goroutines of client c that have started and not returned
Delivering(c) ==
  {g \in Deliveries : plReq[g].client = c /\ plPc[g] \notin {"none", "done"}}

\* C39: a client has at most one delivery goroutine running, its lock is
\* held exactly while one runs, and a request made while the lock is held
\* starts no goroutine and leaves no trace but the rejection
C39_OneDeliveryPerClient ==
  /\ [](\A c \in Clients :
          /\ Cardinality(Delivering(c)) <= 1
          /\ plLock[c] <=> Delivering(c) # {})
  /\ [][\A c \in Clients : \A limit \in Limits :
          (plLock[c] /\ PlRequest(c, limit)) =>
             /\ plLast' = "rejected"
             /\ UNCHANGED <<plLock, plPc, plReq, plI>>]_vars

\* a client's first delivery has ended on a failed write, a later request
\* of the client has started its second delivery, and a request made
\* during that one was rejected
C39_Witness ==
  \E c \in Clients :
    /\ plReq[1].client = c
    /\ plPc[1] = "done"
    /\ ~plOpen[1]
    /\ plReq[2].client = c
    /\ plPc[2] = "bin"
    /\ plLock[c]
    /\ plLast = "rejected"

\* C40: a delivery goroutine that has started returns
C40_DeliveryTerminates ==
  \A g \in Deliveries : (plPc[g] # "none") ~> (plPc[g] = "done")

====
